---- MODULE Spec2Model ----
(***************************************************************************)
(* The parameter synchronisation orchestrator of xtouch-wing               *)
(* (src/src/orchestrator.rs) with the console adapter it drives            *)
(* (src/src/console.rs).  Tasks of the multi-threaded tokio runtime call   *)
(* the operations of an Interface; every step between two points where     *)
(* another task can observe or change shared state is one action.          *)
(***************************************************************************)
EXTENDS Naturals, Sequences, FiniteSets

\* ---------------------------------------------------------------- bounds
NumProviders == 2      \* registered providers besides the console
NumTasks == 2          \* tasks that call Interface operations concurrently
MaxCalls == 2          \* Interface calls started in one behaviour of Spec
MaxRWCalls == 3        \* set_value/get_value calls in one behaviour of SpecRW
MaxNewCalls == 3       \* calls in one behaviour of SpecNew, the identify
                       \*   query of the console adapter included
MaxMeterCalls == 2     \* calls in one behaviour of SpecMeters
MaxJobs == 3           \* tasks of the MIDI provider alive at one time
MaxMidiEvents == 2     \* MIDI messages received in one behaviour of SpecMidi
MaxMidiCalls == 1      \* answers of the console in one behaviour of SpecMidi
NumBanks == 2          \* Controller.banks.len()

Tasks == 1..NumTasks
Ids == 0..NumProviders                      \* 0 is the console
Paths == {"/ch/1/fdr", "/ch/2/fdr"}
Values == {"v1", "v2"}
NoValue == "none"                           \* Option::None
NoTask == 0                                 \* the console lock is free
MainTask == 1                               \* the task that runs main
IdentifyPath == "/$syscfg/$cnscfg"          \* read by Console::identify
MeterLists == {"ch", "bus"}                 \* Vec<Meter> subscribed to
MeterValues == {"levels"}                   \* Vec<Vec<f32>> read from the device
NoMeters == "none"                          \* Console.meters: vec![]

VARIABLES
    cache,        \* Orchestrator.cache: path -> value or NoValue
    waiters,      \* Orchestrator.cache_notifier: tasks with a live Notified future
    console,      \* Orchestrator.console: the task holding the write lock
    pending,      \* paths requested from the console device and not yet answered
    task,         \* per task: the call it runs and its position in it
    calls,        \* number of calls started
    originator,   \* history: the interface id whose set_value inserted cache[K]
    lastInserted, \* history: the value of the latest insert for K
    lastCalled,   \* history: the value of the latest set_value called for K
    prevCalled,   \* history: the value of the set_value called for K before that
    lastDone,     \* history: the value of the latest set_value completed for K
    overlap,      \* history: the latest set_value for K was called while no
                  \*   other ran ("none"), or one of the same interface
                  \*   ("same"), or one of another interface ("other")
    notifReq,     \* history: <<provider, path>> whose notification request
                  \*   was turned into a console request
    timedOut,     \* history: paths a timed-out reader left requested
    lateReply,    \* history: the value cache[K] holds, when it is the console's
                  \*   answer to a request whose reader had timed out
    consoleIface, \* Console.interface: the identities of the Interfaces the
                  \*   console adapter was given by set_interface, in order
    providerIface,\* per position in Orchestrator.providers: the identities
                  \*   of the Interfaces that provider was given, in order
    built,        \* Orchestrator::new has returned
    faulty,       \* the endpoints whose calls return Err now: 0 the console
                  \*   adapter, i the provider with identity i
    meters,       \* Console.meters: the meter list subscribed to
    meterTask,    \* Console.meter_task_spawned
    spawned,      \* the number of meter tasks spawn_meter_task has spawned
    subscribed,   \* history: the list of the latest subscribe_to_meters
                  \*   that returned Ok
    midi          \* the MIDI provider: its Controller, the tasks it has
                  \*   spawned and the thread of its input callback

\* The state outside the cache and the calls: registration, the health of the
\* endpoints and the console adapter's meter subscription.
registry == <<consoleIface, providerIface, built, faulty, meters, meterTask,
             spawned, subscribed>>
env == <<registry, midi>>

vars == <<cache, waiters, console, pending, task, calls, originator,
          lastInserted, lastCalled, prevCalled, lastDone, overlap,
          notifReq, timedOut, lateReply, env>>

hist == <<originator, lastInserted, lastCalled, prevCalled, lastDone,
          overlap, notifReq, timedOut, lateReply>>

\* ---------------------------------------------------------------- events
\* What one call did, in order: the calls it made on the console adapter and
\* on the providers, and its cache and notifier operations.
Ev(e, to, p, v) == [ev |-> e, to |-> to, path |-> p, val |-> v]
EvInsert(p, v) == Ev("insert", 0, p, v)
EvNotify == Ev("notify_waiters", 0, "", "")
EvConsoleSet(p, v) == Ev("console.set_value", 0, p, v)
EvRequest(p) == Ev("console.request_value", 0, p, "")
EvWrite(id, p, v) == Ev("write", id, p, v)
EvListen == Ev("notified", 0, "", "")
EvSetMeters(m) == Ev("console.set_meters", 0, "", m)
EvWriteMeters(id, m) == Ev("write_meter_values", id, "", m)
\* error!(..): the failure of a call on endpoint `to` is logged
EvError(to, p) == Ev("error", to, p, "")

Count(log, e) == Cardinality({i \in 1..Len(log) : log[i] = e})
CountEv(log, name) == Cardinality({i \in 1..Len(log) : log[i].ev = name})

\* Result<...>
NoResult == [kind |-> "none", val |-> ""]
Timeout == [kind |-> "timeout", val |-> ""]
Panic == [kind |-> "panic", val |-> ""]
OkUnit == [kind |-> "ok", val |-> ""]
OkValue(v) == [kind |-> "value", val |-> v]
Failed == [kind |-> "err", val |-> ""]

Idle == [pc |-> "idle", op |-> "none", id |-> 0, path |-> "", val |-> "",
         force |-> FALSE, log |-> <<>>, result |-> NoResult,
         expired |-> FALSE, cached0 |-> FALSE, hit |-> FALSE,
         touched |-> FALSE, vorig |-> 0, late |-> FALSE,
         lateAt |-> NoValue, miss |-> FALSE, idleK |-> FALSE,
         ovl |-> "none", signalled |-> FALSE, reqBy |-> {},
         errs |-> <<>>, i |-> 0]

\* The fields of a task beyond the call's arguments (op, id, path, val,
\* force), its position pc, its events log and its result:
\*   expired      the deadline of the enclosing timeout has passed
\*   cached0      the path was in the cache when the call started
\*   hit          the call found the path in the cache at its first look
\*   miss         the path was missing at the first look of a notification
\*                request or of ensure_value
\*   touched      another call inserted the path since this call started,
\*                or since its own insert, request or cache read
\*   signalled    while the call ran, after its console request, the path
\*                was inserted and notify_waiters was called after that
\*   vorig        the interface whose set_value stored the value read
\*   late, reqBy  set_value from the console: it answers a request whose
\*                reader timed out; the providers whose notification
\*                requests for the path are outstanding
\*   lateAt       lateReply of the path when the call started
\*   idleK, ovl   at the first look of wait_for_value: no set_value for the
\*                path was running; overlap of the path
\*   errs         the failures the call logged with error!, in order
\*   i            Orchestrator::new: the position in providers of its loop

\* ---------------------------------------------------------------- cache
contains_key(c, K) == c[K] # NoValue
get(c, K) == c[K]
\* Faulty variant: an existing entry is kept (entry().or_insert()).
insert_if_absent(c, K, v) == IF c[K] = NoValue THEN [c EXCEPT ![K] = v] ELSE c

insert(c, K, v) == [c EXCEPT ![K] = v]

\* Faulty variant: a provider gets its position as its identity.
position(i) == i

\* Interface::new(id + 1, ..) for the provider at position id of the list.
identity(i) == i + 1

\* The positions of Orchestrator.providers (a Vec: 0-based).
Positions == 0..(NumProviders - 1)

\* The identities of the Interfaces handed out so far: only their holders
\* can call an Interface operation.
Installed ==
    {consoleIface[j] : j \in 1..Len(consoleIface)}
    \cup UNION {{providerIface[i][j] : j \in 1..Len(providerIface[i])}
                  : i \in Positions}

\* ------------------------------------------------ the MIDI provider's state
\* The provider at position 0 of main's list is the X-Touch Controller.
MidiPosition == 0
MidiId == identity(MidiPosition)

\* Who holds a tokio Mutex of the Controller: nobody, a spawned task (its
\* number), the thread of the MIDI input callback, or the task of a write.
NoHolder == 0
JobIds == 1..MaxJobs
CallbackThread == MaxJobs + 1
WriteTask == MaxJobs + 2

\* Controller.banks: bank b holds one fader, that of channel b + 1.
BankIndices == 0..(NumBanks - 1)
banks == [b \in BankIndices |-> <<b + 1>>]

PathTypes == {"Fader", "ScribbleColour", "ScribbleName"}

\* Fader::get_osc_path: format!("{}/fdr", osc_directory) and the like.
get_osc_path(fader, ty) ==
    CASE fader = 1 /\ ty = "Fader" -> "/ch/1/fdr"
      [] fader = 1 /\ ty = "ScribbleColour" -> "/ch/1/$col"
      [] fader = 1 /\ ty = "ScribbleName" -> "/ch/1/$name"
      [] fader = 2 /\ ty = "Fader" -> "/ch/2/fdr"
      [] fader = 2 /\ ty = "ScribbleColour" -> "/ch/2/$col"
      [] fader = 2 /\ ty = "ScribbleName" -> "/ch/2/$name"

\* Fader::path_matches: the type of the path when it is one of this fader's.
path_matches(fader, osc_path) ==
    {ty \in PathTypes : get_osc_path(fader, ty) = osc_path}

MidiPaths == {get_osc_path(fader, ty) : fader \in 1..NumBanks, ty \in PathTypes}

\* Fader::get_meter of the faders of a bank.
BankMeters(b) == IF b = 0 THEN "ch" ELSE "bus"

\* A task the provider spawned: what it runs (kind), where it is (pc), the
\* Interface call it awaits (call), its position in the fader loop (k) and
\* what it was spawned with (fn, path, val).
NoJob == [kind |-> "none", pc |-> "none", call |-> NoTask, k |-> 0,
          fn |-> "", path |-> "", val |-> ""]

\* The callback thread is outside the callback.
CallbackIdle == [pc |-> "idle", msg |-> "", val |-> ""]

\* The MIDI provider when nothing of it runs:
\*   attached      the provider at MidiPosition is the Controller of midi.rs
\*   ctl           the holder of the Mutex<Controller>
\*   ifmx          the holder of Controller.interface (Mutex<Option<Interface>>)
\*   interface     Controller.interface holds Some(Interface)
\*   current_bank  Controller.current_bank
\*   jobs          the tasks spawned by set_interface and by the callback
\*   writes        the tasks spawned by write that did not get the lock yet
\*   writer        the write a task is processing under the lock
\*   cb            the thread of midi_callback
\*   events        MIDI messages received so far
\*   out           what send_midi has sent, in order
MidiInit ==
    [attached |-> FALSE, ctl |-> NoHolder, ifmx |-> NoHolder,
     interface |-> FALSE, current_bank |-> 0,
     jobs |-> [j \in JobIds |-> NoJob],
     writes |-> <<>>, writer |-> <<>>, cb |-> CallbackIdle, events |-> 0,
     out |-> <<>>]

\* tokio::task::spawn: the task takes the first free slot.
FreeJobs(m) == {j \in JobIds : m.jobs[j].pc \in {"none", "done"}}
Spawn(m, job) ==
    LET j == CHOOSE i \in FreeJobs(m) : \A h \in FreeJobs(m) : i <= h
    IN  [m EXCEPT !.jobs[j] = job]

\* WriteProvider::write of the Controller: tokio::task::spawn of a task that
\* will lock the Controller and run process_osc_input(addr, value).
Written(m, ws) ==
    IF m.attached
    THEN [m EXCEPT !.writes = @ \o
             SelectSeq([i \in 1..Len(ws) |->
                          IF ws[i].ev = "write" /\ ws[i].to = MidiId
                          THEN <<ws[i].path, ws[i].val>> ELSE <<>>],
                       LAMBDA w : w # <<>>)]
    ELSE m

\* Once Orchestrator::new has returned: every endpoint holds its Interface
\* and is healthy, nothing is cached and no call runs.
InitCalls ==
    /\ consoleIface = <<0>>
    /\ providerIface = [i \in Positions |-> <<identity(i)>>]
    /\ built = TRUE
    /\ faulty = {}
    /\ midi = MidiInit
    /\ cache = [K \in Paths |-> NoValue]
    /\ waiters = {}
    /\ console = NoTask
    /\ pending = {}
    /\ task = [t \in Tasks |-> Idle]
    /\ calls = 0
    /\ originator = [K \in Paths |-> 0]
    /\ lastInserted = [K \in Paths |-> NoValue]
    /\ lastCalled = [K \in Paths |-> NoValue]
    /\ prevCalled = [K \in Paths |-> NoValue]
    /\ lastDone = [K \in Paths |-> NoValue]
    /\ overlap = [K \in Paths |-> "none"]
    /\ notifReq = {}
    /\ timedOut = {}
    /\ lateReply = [K \in Paths |-> NoValue]

\* The state after Orchestrator::new has returned, no meters subscribed to.
Init ==
    /\ InitCalls
    /\ meters = NoMeters
    /\ meterTask = FALSE
    /\ spawned = 0
    /\ subscribed = NoMeters

\* The same, or later, when a subscribe_to_meters(m) has returned Ok: the
\* console adapter holds m and its meter task runs.
InitMeters ==
    /\ InitCalls
    /\ \E m \in {NoMeters, "ch"} :
          /\ meters = m
          /\ subscribed = m
          /\ meterTask = (m # NoMeters)
          /\ spawned = IF m # NoMeters THEN 1 ELSE 0

\* The state in which main calls Orchestrator::new: no Interface exists yet
\* and the cache is empty.
InitNew ==
    /\ consoleIface = <<>>
    /\ providerIface = [i \in Positions |-> <<>>]
    /\ built = FALSE
    /\ faulty = {}
    /\ meters = NoMeters
    /\ meterTask = FALSE
    /\ spawned = 0
    /\ subscribed = NoMeters
    /\ midi = MidiInit
    /\ cache = [K \in Paths \cup {IdentifyPath} |-> NoValue]
    /\ waiters = {}
    /\ console = NoTask
    /\ pending = {}
    /\ task = [t \in Tasks |->
                 IF t = MainTask
                 THEN [Idle EXCEPT !.pc = "new_lock", !.op = "new"]
                 ELSE Idle]
    /\ calls = 0
    /\ originator = [K \in Paths \cup {IdentifyPath} |-> 0]
    /\ lastInserted = [K \in Paths \cup {IdentifyPath} |-> NoValue]
    /\ lastCalled = [K \in Paths \cup {IdentifyPath} |-> NoValue]
    /\ prevCalled = [K \in Paths \cup {IdentifyPath} |-> NoValue]
    /\ lastDone = [K \in Paths \cup {IdentifyPath} |-> NoValue]
    /\ overlap = [K \in Paths \cup {IdentifyPath} |-> "none"]
    /\ notifReq = {}
    /\ timedOut = {}
    /\ lateReply = [K \in Paths \cup {IdentifyPath} |-> NoValue]

\* Later, when the console has sent one value and its set_value has
\* completed, or none: the first path is cached, or nothing is.
InitCached ==
    /\ consoleIface = <<0>>
    /\ providerIface = [i \in Positions |-> <<identity(i)>>]
    /\ built = TRUE
    /\ faulty = {}
    /\ meters = NoMeters
    /\ meterTask = FALSE
    /\ spawned = 0
    /\ subscribed = NoMeters
    /\ midi = MidiInit
    /\ \E v \in {NoValue, "v1"} :
          LET held == [K \in Paths |-> IF K = "/ch/1/fdr" THEN v ELSE NoValue]
          IN  /\ cache = held
              /\ lastInserted = held
              /\ lastCalled = held
              /\ lastDone = held
    /\ waiters = {}
    /\ console = NoTask
    /\ pending = {}
    /\ task = [t \in Tasks |-> Idle]
    /\ calls = 0
    /\ originator = [K \in Paths |-> 0]
    /\ prevCalled = [K \in Paths |-> NoValue]
    /\ overlap = [K \in Paths |-> "none"]
    /\ notifReq = {}
    /\ timedOut = {}
    /\ lateReply = [K \in Paths |-> NoValue]

\* A set_value for K is between its call and its completion.
SetInFlight(K) ==
    \E u \in Tasks : /\ task[u].op = "set_value"
                     /\ task[u].path = K
                     /\ task[u].pc \notin {"idle", "done"}

\* How a set_value for K called now through interface id overlaps others.
Overlap(K, id) ==
    IF ~SetInFlight(K) THEN "none"
    ELSE IF \E u \in Tasks : /\ task[u].op = "set_value"
                              /\ task[u].path = K
                              /\ task[u].pc \notin {"idle", "done"}
                              /\ task[u].id # id
         THEN "other" ELSE "same"

Timed(op) == op \in {"get_value", "request_value_notification_checked"}

Log(t, e) == Append(task[t].log, e)

\* What the step has added to the log of t.
Appended(t) ==
    SubSeq(task'[t].log, Len(task[t].log) + 1, Len(task'[t].log))
Requests(log) == CountEv(log, "console.request_value")

\* The call of t ends with result r.
Done(t, r) == [task[t] EXCEPT !.pc = "done", !.result = r]

\* A call starts on a task that runs none; the history variables it does not
\* set are left alone.
Begin(t, op, id, K, v, f) ==
    [Idle EXCEPT !.pc = op, !.op = op, !.id = id, !.path = K, !.val = v,
                 !.force = f, !.cached0 = contains_key(cache, K),
                 !.lateAt = lateReply[K]]

CanCall(t, n) == task[t].pc \in {"idle", "done"} /\ calls < n

\* ------------------------------------------------------ Orchestrator::new
\* orchestra.console.write().await
new_lock(t) ==
    /\ task[t].pc = "new_lock"
    /\ console = NoTask
    /\ console' = t
    /\ task' = [task EXCEPT ![t].pc = "new_console"]
    /\ UNCHANGED <<env, cache, waiters, pending, calls, hist>>

\* .set_interface(Interface::new(0, orchestra.clone())).await:
\* Console::set_interface stores the Interface and spawns the task that
\* identifies the console by get_value("/$syscfg/$cnscfg", true) through
\* it; the guard is dropped at the end of the block.
new_console(t) ==
    /\ task[t].pc = "new_console"
    /\ consoleIface' = Append(consoleIface, 0)
    /\ console' = NoTask
    /\ \E u \in Tasks \ {t} :
          /\ task[u].pc \in {"idle", "done"}
          /\ task' = [task EXCEPT
                 ![t].pc = "new_provider",
                 ![t].i = 0,
                 ![u] = [Begin(u, "get_value", 0, IdentifyPath, "", TRUE)
                            EXCEPT !.pc = "wfv_check"]]
    /\ calls' = calls + 1
    /\ UNCHANGED <<cache, waiters, pending, hist, providerIface, built,
                   faulty, meters, meterTask,
                   spawned, subscribed, midi>>

\* Faulty variant: the loop steps over every other provider.
new_provider_skip(t) ==
    /\ task[t].pc = "new_provider"
    /\ task[t].i < NumProviders
    /\ providerIface' = [providerIface EXCEPT
           ![task[t].i] = Append(@, identity(task[t].i))]
    /\ task' = [task EXCEPT ![t].i = IF @ + 2 > NumProviders
                                     THEN NumProviders ELSE @ + 2]
    /\ UNCHANGED <<cache, waiters, console, pending, calls, hist,
                   consoleIface, built, faulty, meters, meterTask,
                   spawned, subscribed, midi>>

\* for (id, provider) in orchestra.providers.iter().enumerate() {
\*     provider.set_interface(Interface::new(id + 1, orchestra.clone())) }
\* one turn of the loop.
new_provider(t) ==
    /\ task[t].pc = "new_provider"
    /\ task[t].i < NumProviders
    /\ providerIface' = [providerIface EXCEPT
           ![task[t].i] = Append(@, identity(task[t].i))]
    /\ task' = [task EXCEPT ![t].i = @ + 1]
    /\ UNCHANGED <<cache, waiters, console, pending, calls, hist,
                   consoleIface, built, faulty, meters, meterTask,
                   spawned, subscribed, midi>>

\* The loop is over and Orchestrator::new returns the orchestrator.
new_return(t) ==
    /\ task[t].pc = "new_provider"
    /\ task[t].i = NumProviders
    /\ built' = TRUE
    /\ task' = [task EXCEPT ![t] = Done(t, OkUnit)]
    /\ UNCHANGED <<cache, waiters, console, pending, calls, hist,
                   consoleIface, providerIface, faulty, meters, meterTask,
                   spawned, subscribed, midi>>

\* ------------------------------------------------------------ set_value
\* Faulty variant: the originator is not skipped.
RecipientsAll(id) == [i \in 1..NumProviders |-> i]

\* Faulty variant: the list is walked from its end (iter().rev()).
RecipientsReversed(id) ==
    LET keep(i) == i # id
    IN  SelectSeq([i \in 1..NumProviders |-> NumProviders + 1 - i], keep)

\* The providers set_value writes to, in registration order: every one but
\* the originator.
Recipients(id) ==
    LET keep(i) == i # id
    IN  SelectSeq([i \in 1..NumProviders |-> i], keep)

\* Interface::set_value is called through the Interface with identity id.
\* The console's receive task calls it (id 0) for every value the device
\* sends, which answers an outstanding request for that path.
begin_set_value(t, id, K, v) ==
    /\ task' = [task EXCEPT ![t] =
           [Begin(t, "set_value", id, K, v, FALSE) EXCEPT
               !.pc = "sv_insert",
               !.late = (id = 0 /\ K \in pending /\ K \in timedOut),
               !.reqBy = IF id = 0 /\ K \in pending
                         THEN {P \in Ids : <<P, K>> \in notifReq}
                         ELSE {}]]
    /\ notifReq' = IF id = 0
                   THEN {x \in notifReq : x[2] # K} ELSE notifReq
    /\ pending' = IF id = 0 THEN pending \ {K} ELSE pending
    /\ timedOut' = IF id = 0 THEN timedOut \ {K} ELSE timedOut
    /\ prevCalled' = [prevCalled EXCEPT ![K] = lastCalled[K]]
    /\ lastCalled' = [lastCalled EXCEPT ![K] = v]
    /\ overlap' = [overlap EXCEPT ![K] = Overlap(K, id)]

call_set_value(t, n) ==
    /\ CanCall(t, n)
    /\ \E id \in Installed, K \in DOMAIN cache, v \in Values :
          begin_set_value(t, id, K, v)
    /\ calls' = calls + 1
    /\ UNCHANGED <<env, cache, waiters, console, originator, lastInserted,
                   lastDone, lateReply>>

\* self.orchestrator.cache.write().await.insert(..): the write lock is taken
\* and dropped within the statement.
sv_insert(t) ==
    /\ task[t].pc = "sv_insert"
    /\ LET K == task[t].path
           v == task[t].val
       IN  /\ cache' = insert(cache, K, v)
           /\ originator' = [originator EXCEPT ![K] = task[t].id]
           /\ lastInserted' = [lastInserted EXCEPT ![K] = v]
           /\ lateReply' = [lateReply EXCEPT
                               ![K] = IF task[t].late THEN v ELSE NoValue]
           /\ task' = [u \in Tasks |->
                 IF u = t
                 THEN [task[t] EXCEPT !.pc = "sv_notify",
                                      !.log = Log(t, EvInsert(K, v)),
                                      !.touched = FALSE]
                 ELSE IF task[u].path = K
                      THEN [task[u] EXCEPT !.touched = TRUE]
                      ELSE task[u]]
    /\ UNCHANGED <<env, waiters, console, pending, calls, lastCalled, prevCalled,
                   lastDone, overlap, notifReq, timedOut>>

\* if let Err(e) = provider.write(..) { error!(..) }: the failures of the
\* provider loop of t, in the order of the loop.
WriteErrors(t) ==
    LET rec == Recipients(task[t].id)
        bad(Q) == Q \in faulty
        es == SelectSeq(rec, bad)
    IN  [j \in 1..Len(es) |-> EvError(es[j], task[t].path)]

\* if let Err(e) = console.set_value(..).await { error!(..) }, and the same
\* for console.request_value(..).await
ConsoleError(t) ==
    IF 0 \in faulty THEN <<EvError(0, task[t].path)>> ELSE <<>>

\* Faulty variant: the first write that fails ends the loop and is returned
\* to the caller (provider.write(..)?).
fanout_abort(t, log) ==
    LET rec == Recipients(task[t].id)
        bad == {j \in 1..Len(rec) : rec[j] \in faulty}
        last == IF bad = {} THEN Len(rec)
                ELSE CHOOSE j \in bad : \A k \in bad : j <= k
        ws == [j \in 1..last |->
                  EvWrite(rec[j], task[t].path, task[t].val)]
    IN  [task[t] EXCEPT !.log = log \o ws, !.pc = "done",
                        !.result = IF bad = {} THEN OkUnit ELSE Failed]

\* for (id, provider) in providers.iter().enumerate() { if id + 1 != self.id
\* { provider.write(..) } }: synchronous calls with no await between them,
\* after which set_value returns.  A write that fails is logged and the loop
\* goes on.
fanout(t, log) ==
    LET rec == Recipients(task[t].id)
        ws == [j \in 1..Len(rec) |->
                  EvWrite(rec[j], task[t].path, task[t].val)]
    IN  [task[t] EXCEPT !.log = log \o ws, !.pc = "done", !.result = OkUnit,
                        !.errs = task[t].errs \o WriteErrors(t)]

\* cache_notifier.notify_waiters(): every Notified future that exists now is
\* woken; a future created later is not.  The console (id 0) goes on to the
\* provider loop, any other originator to the console lock.
sv_notify(t) ==
    /\ task[t].pc = "sv_notify"
    /\ waiters' = {}
    /\ task' = [u \in Tasks |->
           IF u = t
           THEN IF task[t].id # 0
                THEN [task[t] EXCEPT !.log = Log(t, EvNotify),
                                     !.pc = "sv_lock"]
                ELSE fanout(t, Log(t, EvNotify))
           ELSE IF /\ task[u].path = task[t].path
                   /\ task[u].pc \notin {"idle", "done"}
                   /\ Requests(task[u].log) > 0
                   /\ task[u].touched
                THEN [task[u] EXCEPT !.signalled = TRUE]
                ELSE task[u]]
    /\ lastDone' = IF task[t].id # 0 THEN lastDone
                   ELSE [lastDone EXCEPT ![task[t].path] = task[t].val]
    /\ midi' = Written(midi, Appended(t))
    /\ UNCHANGED <<registry, cache, console, pending, calls, originator,
                   lastInserted, lastCalled, prevCalled, overlap, notifReq,
                   timedOut, lateReply>>

\* Faulty variant: the console is used without waiting for its lock.
sv_lock_no_wait(t) ==
    /\ task[t].pc = "sv_lock"
    /\ console' = t
    /\ task' = [task EXCEPT ![t].pc = "sv_console"]
    /\ UNCHANGED <<env, cache, waiters, pending, calls, hist>>

\* self.orchestrator.console.write().await
sv_lock(t) ==
    /\ task[t].pc = "sv_lock"
    /\ console = NoTask
    /\ console' = t
    /\ task' = [task EXCEPT ![t].pc = "sv_console"]
    /\ UNCHANGED <<env, cache, waiters, pending, calls, hist>>

\* Faulty variant: the failure of the console adapter is returned to the
\* caller before the provider loop (console.set_value(..).await?).
sv_console_abort(t) ==
    /\ task[t].pc = "sv_console"
    /\ console' = NoTask
    /\ task' = [task EXCEPT ![t] =
           IF 0 \in faulty
           THEN [Done(t, Failed) EXCEPT
                   !.log = Log(t, EvConsoleSet(task[t].path, task[t].val)),
                   !.errs = task[t].errs \o ConsoleError(t)]
           ELSE fanout(t, Log(t, EvConsoleSet(task[t].path, task[t].val)))]
    /\ lastDone' = [lastDone EXCEPT ![task[t].path] = task[t].val]
    /\ UNCHANGED <<env, cache, waiters, pending, calls, originator,
                   lastInserted, lastCalled, prevCalled, overlap, notifReq,
                   timedOut, lateReply>>

\* console.set_value(osc_addr, value).await, whose failure is logged; the
\* guard is dropped at the end of the block and the provider loop follows.
sv_console(t) ==
    /\ task[t].pc = "sv_console"
    /\ console' = NoTask
    /\ task' = [task EXCEPT ![t] =
           [fanout(t, Log(t, EvConsoleSet(task[t].path, task[t].val)))
               EXCEPT !.errs = task[t].errs \o ConsoleError(t)
                                  \o WriteErrors(t)]]
    /\ lastDone' = [lastDone EXCEPT ![task[t].path] = task[t].val]
    /\ midi' = Written(midi, Appended(t))
    /\ UNCHANGED <<registry, cache, waiters, pending, calls, originator, lastInserted,
                   lastCalled, prevCalled, overlap, notifReq, timedOut,
                   lateReply>>

\* -------------------------------------------- request_value_from_console
\* self.console.write().await
req_lock(t) ==
    /\ task[t].pc = "req_lock"
    /\ console = NoTask
    /\ console' = t
    /\ task' = [task EXCEPT ![t].pc = "req_send"]
    /\ UNCHANGED <<env, cache, waiters, pending, calls, hist>>

\* Faulty variant: the entry is dropped from the cache when its value is
\* requested again.
req_send_invalidate(t) ==
    /\ task[t].pc = "req_send"
    /\ console' = NoTask
    /\ cache' = [cache EXCEPT ![task[t].path] = NoValue]
    /\ pending' = pending \cup {task[t].path}
    /\ task' = [task EXCEPT
           ![t].log = Log(t, EvRequest(task[t].path)),
           ![t].touched = FALSE,
           ![t].pc = IF Timed(task[t].op) THEN "wfv_notified" ELSE "done",
           ![t].result = IF Timed(task[t].op) THEN NoResult ELSE OkUnit]
    /\ UNCHANGED <<env, waiters, calls, hist>>

\* Faulty variant: the guard of the console lock is not dropped when
\* request_value_from_console returns.
req_send_keep_lock(t) ==
    /\ task[t].pc = "req_send"
    /\ pending' = pending \cup {task[t].path}
    /\ task' = [task EXCEPT
           ![t].log = Log(t, EvRequest(task[t].path)),
           ![t].touched = FALSE,
           ![t].pc = IF Timed(task[t].op) THEN "wfv_notified" ELSE "done",
           ![t].result = IF Timed(task[t].op) THEN NoResult ELSE OkUnit]
    /\ UNCHANGED <<env, cache, waiters, console, calls, hist>>

\* Faulty variant: a path that is already requested is not requested again
\* (requests are coalesced).
req_send_coalesce(t) ==
    /\ task[t].pc = "req_send"
    /\ console' = NoTask
    /\ pending' = pending \cup {task[t].path}
    /\ task' = [task EXCEPT
           ![t].log = IF task[t].path \in pending THEN task[t].log
                      ELSE Log(t, EvRequest(task[t].path)),
           ![t].touched = FALSE,
           ![t].pc = IF Timed(task[t].op) THEN "wfv_notified" ELSE "done",
           ![t].result = IF Timed(task[t].op) THEN NoResult ELSE OkUnit]
    /\ UNCHANGED <<env, cache, waiters, calls, hist>>

\* console.request_value(osc_addr).await sends the request to the device and
\* returns, or fails, which is logged and not returned, and nothing was
\* sent; the guard is dropped.  What follows depends on the caller.
req_send(t) ==
    /\ task[t].pc = "req_send"
    /\ console' = NoTask
    /\ pending' = IF 0 \in faulty THEN pending
                  ELSE pending \cup {task[t].path}
    /\ task' = [task EXCEPT
           ![t].log = Log(t, EvRequest(task[t].path)),
           ![t].errs = task[t].errs \o ConsoleError(t),
           ![t].touched = FALSE,
           ![t].pc = IF Timed(task[t].op) THEN "wfv_notified" ELSE "done",
           ![t].result = IF Timed(task[t].op) THEN NoResult ELSE OkUnit]
    /\ notifReq' = IF task[t].op = "request_value_notification"
                      /\ task[t].id # 0
                      /\ 0 \notin faulty
                   THEN notifReq \cup {<<task[t].id, task[t].path>>}
                   ELSE notifReq
    /\ UNCHANGED <<env, cache, waiters, calls, originator, lastInserted,
                   lastCalled, prevCalled, lastDone, overlap, timedOut,
                   lateReply>>

\* ------------------------------------------------------- wait_for_value
\* What the caller of wait_for_value returns for the value found.
Found(t, v) ==
    IF task[t].op = "get_value" THEN OkValue(v) ELSE OkUnit

\* Faulty variant: the cache is not consulted before the request.
wfv_check_no_cache(t) ==
    /\ task[t].pc = "wfv_check"
    /\ task' = [task EXCEPT ![t].pc = "req_lock"]
    /\ UNCHANGED <<env, cache, waiters, console, pending, calls, hist>>

\* if !force_refresh { if let Some(value) = cache.get(osc_addr) { return } }
wfv_check(t) ==
    /\ task[t].pc = "wfv_check"
    /\ task' = [task EXCEPT ![t] =
           IF ~task[t].force /\ contains_key(cache, task[t].path)
           THEN [Done(t, Found(t, get(cache, task[t].path)))
                    EXCEPT !.hit = TRUE,
                           !.idleK = ~SetInFlight(task[t].path),
                           !.ovl = overlap[task[t].path]]
           ELSE [task[t] EXCEPT !.pc = "req_lock"]]
    /\ UNCHANGED <<env, cache, waiters, console, pending, calls, hist>>

\* self.cache_notifier.notified(): the future is created here, after the
\* request, and at every turn of the loop.
wfv_notified(t) ==
    /\ task[t].pc = "wfv_notified"
    /\ waiters' = waiters \cup {t}
    /\ task' = [task EXCEPT ![t].pc = "wfv_wait",
                            ![t].log = Log(t, EvListen)]
    /\ UNCHANGED <<env, cache, console, pending, calls, hist>>

\* Faulty variant: after a wake the call returns the value of any path the
\* cache holds when its own is missing.
wfv_recheck_any_path(t) ==
    /\ task[t].pc = "wfv_wait"
    /\ t \notin waiters
    /\ LET held == {P \in DOMAIN cache : contains_key(cache, P)}
       IN  task' = [task EXCEPT ![t] =
               IF contains_key(cache, task[t].path)
               THEN Done(t, Found(t, get(cache, task[t].path)))
               ELSE IF held # {}
                    THEN Done(t, Found(t, get(cache, CHOOSE P \in held : TRUE)))
                    ELSE [task[t] EXCEPT !.pc = "wfv_notified"]]
    /\ UNCHANGED <<env, cache, waiters, console, pending, calls, hist>>

\* Faulty variant: the call returns at the first wake, whatever the cache
\* holds for its path.
wfv_recheck_once(t) ==
    /\ task[t].pc = "wfv_wait"
    /\ t \notin waiters
    /\ task' = [task EXCEPT ![t] =
           Done(t, Found(t, get(cache, task[t].path)))]
    /\ UNCHANGED <<env, cache, waiters, console, pending, calls, hist>>

\* .await returns once notify_waiters has woken the future; the cache is
\* read again and the loop goes round when the path is still missing.
wfv_recheck(t) ==
    /\ task[t].pc = "wfv_wait"
    /\ t \notin waiters
    /\ task' = [task EXCEPT ![t] =
           IF contains_key(cache, task[t].path)
           THEN Done(t, Found(t, get(cache, task[t].path)))
           ELSE [task[t] EXCEPT !.pc = "wfv_notified"]]
    /\ UNCHANGED <<env, cache, waiters, console, pending, calls, hist>>

\* Timeout polls the wrapped future first and the deadline only when that
\* future is pending: at the console lock held by another task, or at a
\* Notified future not yet woken.  The future is dropped; the request
\* already sent stays with the console.
Suspended(t) ==
    \/ task[t].pc = "req_lock" /\ console # NoTask
    \/ task[t].pc = "wfv_wait" /\ t \in waiters

\* tokio::time::timeout(OSC_TIMEOUT, future): the deadline passes.  It
\* is looked at only while the wrapped future is pending.
timer(t) ==
    /\ Timed(task[t].op)
    /\ Suspended(t)
    /\ ~task[t].expired
    /\ task' = [task EXCEPT ![t].expired = TRUE]
    /\ UNCHANGED <<env, cache, waiters, console, pending, calls, hist>>

\* Faulty variant: the error is returned before the deadline.
timeout_early(t) ==
    /\ Timed(task[t].op)
    /\ Suspended(t)
    /\ waiters' = waiters \ {t}
    /\ task' = [task EXCEPT ![t] = Done(t, Timeout)]
    /\ timedOut' = IF task[t].path \in pending
                   THEN timedOut \cup {task[t].path} ELSE timedOut
    /\ UNCHANGED <<env, cache, console, pending, calls, originator, lastInserted,
                   lastCalled, prevCalled, lastDone, overlap, notifReq,
                   lateReply>>

\* Faulty variant: the timeout withdraws the request from the console.
timeout_cancel(t) ==
    /\ Timed(task[t].op)
    /\ Suspended(t)
    /\ task[t].expired
    /\ waiters' = waiters \ {t}
    /\ task' = [task EXCEPT ![t] = Done(t, Timeout)]
    /\ pending' = pending \ {task[t].path}
    /\ timedOut' = IF task[t].path \in pending
                   THEN timedOut \cup {task[t].path} ELSE timedOut
    /\ UNCHANGED <<env, cache, console, calls, originator, lastInserted,
                   lastCalled, prevCalled, lastDone, overlap, notifReq,
                   lateReply>>

timeout(t) ==
    /\ Timed(task[t].op)
    /\ Suspended(t)
    /\ task[t].expired
    /\ waiters' = waiters \ {t}
    /\ task' = [task EXCEPT ![t] = Done(t, Timeout)]
    /\ timedOut' = IF task[t].path \in pending
                   THEN timedOut \cup {task[t].path} ELSE timedOut
    /\ UNCHANGED <<env, cache, console, pending, calls, originator, lastInserted,
                   lastCalled, prevCalled, lastDone, overlap, notifReq,
                   lateReply>>

\* ------------------------------------------------------------ get_value
call_get_value(t, n) ==
    /\ CanCall(t, n)
    /\ \E id \in Installed, K \in DOMAIN cache, f \in BOOLEAN :
          task' = [task EXCEPT ![t] =
              [Begin(t, "get_value", id, K, "", f) EXCEPT !.pc = "wfv_check"]]
    /\ calls' = calls + 1
    /\ UNCHANGED <<env, cache, waiters, console, pending, hist>>

\* --------------------------------------------------------- ensure_value
call_ensure_value(t, n) ==
    /\ CanCall(t, n)
    /\ \E id \in Installed, K \in DOMAIN cache, f \in BOOLEAN :
          task' = [task EXCEPT ![t] =
              [Begin(t, "ensure_value", id, K, "", f) EXCEPT !.pc = "ev_check"]]
    /\ calls' = calls + 1
    /\ UNCHANGED <<env, cache, waiters, console, pending, hist>>

\* Faulty variant: a cached path is never requested, forced or not.
ev_check_ignore_force(t) ==
    /\ task[t].pc = "ev_check"
    /\ task' = [task EXCEPT ![t] =
           IF contains_key(cache, task[t].path)
           THEN [Done(t, OkUnit) EXCEPT !.hit = TRUE]
           ELSE [task[t] EXCEPT !.pc = "req_lock", !.miss = TRUE]]
    /\ UNCHANGED <<env, cache, waiters, console, pending, calls, hist>>

\* if !force_refresh && value_exists_in_cache(osc_addr).await { return; }
ev_check(t) ==
    /\ task[t].pc = "ev_check"
    /\ task' = [task EXCEPT ![t] =
           IF ~task[t].force /\ contains_key(cache, task[t].path)
           THEN [Done(t, OkUnit) EXCEPT !.hit = TRUE]
           ELSE [task[t] EXCEPT !.pc = "req_lock",
                                !.miss = ~contains_key(cache, task[t].path)]]
    /\ UNCHANGED <<env, cache, waiters, console, pending, calls, hist>>

\* ------------------- request_value_notification and its checked variant
call_request_value_notification(t, n) ==
    /\ CanCall(t, n)
    /\ \E id \in Installed, K \in DOMAIN cache, f \in BOOLEAN :
          task' = [task EXCEPT ![t] =
              [Begin(t, "request_value_notification", id, K, "", f)
                  EXCEPT !.pc = "rvn_check"]]
    /\ calls' = calls + 1
    /\ UNCHANGED <<env, cache, waiters, console, pending, hist>>

call_request_value_notification_checked(t, n) ==
    /\ CanCall(t, n)
    /\ \E id \in Installed, K \in DOMAIN cache, f \in BOOLEAN :
          task' = [task EXCEPT ![t] =
              [Begin(t, "request_value_notification_checked", id, K, "", f)
                  EXCEPT !.pc = "rvn_check"]]
    /\ calls' = calls + 1
    /\ UNCHANGED <<env, cache, waiters, console, pending, hist>>

\* Faulty variant: force_refresh is ignored.
rvn_check_ignore_force(t) ==
    /\ task[t].pc = "rvn_check"
    /\ task' = [task EXCEPT
           ![t].miss = ~contains_key(cache, task[t].path),
           ![t].pc =
               IF ~contains_key(cache, task[t].path)
               THEN IF task[t].op = "request_value_notification"
                    THEN "req_lock"
                    ELSE "wfv_check"
               ELSE "rvn_read"]
    /\ UNCHANGED <<env, cache, waiters, console, pending, calls, hist>>

\* if force_refresh || !value_exists_in_cache(osc_addr).await { request }
\* else { notify }.  The unchecked variant requests and returns; the checked
\* one runs wait_for_value, which looks at the cache again unless forced.
rvn_check(t) ==
    /\ task[t].pc = "rvn_check"
    /\ task' = [task EXCEPT
           ![t].miss = ~contains_key(cache, task[t].path),
           ![t].pc =
               IF task[t].force \/ ~contains_key(cache, task[t].path)
               THEN IF task[t].op = "request_value_notification"
                       \/ task[t].force
                    THEN "req_lock"
                    ELSE "wfv_check"
               ELSE "rvn_read"]
    /\ UNCHANGED <<env, cache, waiters, console, pending, calls, hist>>

\* let value = get_cached_value(osc_addr).await.unwrap();
rvn_read(t) ==
    /\ task[t].pc = "rvn_read"
    /\ task' = [task EXCEPT ![t] =
           IF contains_key(cache, task[t].path)
           THEN [task[t] EXCEPT !.val = get(cache, task[t].path),
                                !.vorig = originator[task[t].path],
                                !.hit = TRUE,
                                !.touched = FALSE,
                                !.pc = "nid"]
           ELSE Done(t, Panic)]
    /\ UNCHANGED <<env, cache, waiters, console, pending, calls, hist>>

\* Faulty variant: a peer of the caller is notified.
NotifyPeer(t) == IF task[t].id = 1 THEN 2 ELSE 1

\* The identity notify_provider_by_id is called with: the caller's own.
NotifyTarget(t) == task[t].id

\* The provider_id argument is a usize: the identities of the registry and
\* one beyond them.
ProviderIds == 0..(NumProviders + 1)

\* Orchestrator::notify_provider_by_id is called on its own, for any
\* provider_id, path and value.
call_notify_provider_by_id(t, n) ==
    /\ CanCall(t, n)
    /\ \E id \in ProviderIds, K \in DOMAIN cache, v \in Values :
          task' = [task EXCEPT ![t] =
              [Begin(t, "notify_provider_by_id", id, K, v, FALSE)
                  EXCEPT !.pc = "nid"]]
    /\ calls' = calls + 1
    /\ UNCHANGED <<env, cache, waiters, console, pending, hist>>

\* Faulty variant: an identity beyond the list goes to the last provider
\* (the index is clamped).
notify_provider_by_id_clamp(t) ==
    /\ task[t].pc = "nid"
    /\ LET to == NotifyTarget(t)
           at == IF to > NumProviders THEN NumProviders ELSE to
       IN  IF to = 0
           THEN /\ console = NoTask
                /\ console' = t
                /\ task' = [task EXCEPT ![t].pc = "nid_console"]
           ELSE /\ console' = console
                /\ task' = [task EXCEPT ![t] =
                      [Done(t, OkUnit) EXCEPT
                          !.log = Log(t, EvWrite(at, task[t].path,
                                                 task[t].val))]]
    /\ UNCHANGED <<env, cache, waiters, pending, calls, hist>>

\* notify_provider_by_id(provider_id, osc_addr, value): the console (id 0)
\* behind its lock, provider id-1 of the list by a synchronous write, no
\* one when the list has no such entry.
notify_provider_by_id(t) ==
    /\ task[t].pc = "nid"
    /\ LET to == NotifyTarget(t)
       IN  IF to = 0
           THEN /\ console = NoTask
                /\ console' = t
                /\ task' = [task EXCEPT ![t].pc = "nid_console"]
           ELSE /\ console' = console
                /\ task' = [task EXCEPT ![t] =
                      IF to \in 1..NumProviders
                      THEN [Done(t, OkUnit) EXCEPT
                              !.log = Log(t, EvWrite(to, task[t].path,
                                                     task[t].val)),
                              !.errs = IF to \in faulty
                                       THEN Append(task[t].errs,
                                                   EvError(to, task[t].path))
                                       ELSE task[t].errs]
                      ELSE [Done(t, OkUnit) EXCEPT
                              !.errs = Append(task[t].errs,
                                              EvError(to, task[t].path))]]
    /\ midi' = Written(midi, Appended(t))
    /\ UNCHANGED <<registry, cache, waiters, pending, calls, hist>>

\* console.set_value(osc_addr, value.clone()).await under the lock.
nid_console(t) ==
    /\ task[t].pc = "nid_console"
    /\ console' = NoTask
    /\ task' = [task EXCEPT ![t] =
           [Done(t, OkUnit) EXCEPT
               !.log = Log(t, EvConsoleSet(task[t].path, task[t].val)),
               !.errs = task[t].errs \o ConsoleError(t)]]
    /\ UNCHANGED <<env, cache, waiters, pending, calls, hist>>

\* --------------------------------------------------------------- meters
call_subscribe_to_meters(t, n) ==
    /\ CanCall(t, n)
    /\ \E id \in Installed, m \in MeterLists :
          task' = [task EXCEPT ![t] =
              [Idle EXCEPT !.pc = "stm_lock", !.op = "subscribe_to_meters",
                           !.id = id, !.val = m]]
    /\ calls' = calls + 1
    /\ UNCHANGED <<env, cache, waiters, console, pending, hist>>

\* let mut console = self.orchestrator.console.write().await;
stm_lock(t) ==
    /\ task[t].pc = "stm_lock"
    /\ console = NoTask
    /\ console' = t
    /\ task' = [task EXCEPT ![t].pc = "stm_console"]
    /\ UNCHANGED <<env, cache, waiters, pending, calls, hist>>

\* console.set_meters(meters).await: Console::set_meters replaces its list,
\* asks the device for these meters, returning the failure of that request,
\* and on the first success spawns the task that reads the meters.  The
\* result is returned to the caller and the guard is dropped.
stm_console(t) ==
    /\ task[t].pc = "stm_console"
    /\ console' = NoTask
    /\ meters' = task[t].val
    /\ meterTask' = (meterTask \/ 0 \notin faulty)
    /\ spawned' = IF 0 \notin faulty /\ ~meterTask THEN spawned + 1
                  ELSE spawned
    /\ subscribed' = IF 0 \notin faulty THEN task[t].val ELSE subscribed
    /\ task' = [task EXCEPT ![t] =
           [Done(t, IF 0 \in faulty THEN Failed ELSE OkUnit) EXCEPT
               !.log = Log(t, EvSetMeters(task[t].val))]]
    /\ UNCHANGED <<cache, waiters, pending, calls, hist, consoleIface,
                   providerIface, built, faulty, midi>>

\* Faulty variant: the loop ends at the first provider whose
\* write_meter_values fails.
set_meters_abort(t, n) ==
    /\ CanCall(t, n)
    /\ meterTask
    /\ 0 \in Installed
    /\ \E m \in MeterValues :
          LET bad == {i \in 1..NumProviders : i \in faulty}
              last == IF bad = {} THEN NumProviders
                      ELSE CHOOSE i \in bad : \A j \in bad : i <= j
          IN  task' = [task EXCEPT ![t] =
                  [Idle EXCEPT
                      !.pc = "done", !.op = "set_meters", !.val = m,
                      !.result = OkUnit,
                      !.log = [j \in 1..last |-> EvWriteMeters(j, m)],
                      !.errs = IF bad = {} THEN <<>>
                               ELSE <<EvError(last, "")>>]]
    /\ calls' = calls + 1
    /\ UNCHANGED <<env, cache, waiters, console, pending, hist>>

\* Interface::set_meters(values), called by the console adapter's meter task
\* through the console's Interface for every set of values read:
\* provider.write_meter_values(values) on every provider, in list order, a
\* failure being logged; no await in between.
set_meters(t, n) ==
    /\ CanCall(t, n)
    /\ meterTask
    /\ 0 \in Installed
    /\ \E m \in MeterValues :
          LET all == [i \in 1..NumProviders |-> i]
              bad(Q) == Q \in faulty
              es == SelectSeq(all, bad)
          IN  task' = [task EXCEPT ![t] =
                  [Idle EXCEPT
                      !.pc = "done", !.op = "set_meters", !.val = m,
                      !.result = OkUnit,
                      !.log = [j \in 1..NumProviders |->
                                  EvWriteMeters(all[j], m)],
                      !.errs = [j \in 1..Len(es) |-> EvError(es[j], "")]]]
    /\ calls' = calls + 1
    /\ UNCHANGED <<env, cache, waiters, console, pending, hist>>

\* ------------------------------------------------- the MIDI provider
Job(j) == midi.jobs[j]

\* What the provider's own steps leave alone.
core == <<registry, cache, waiters, console, pending, calls, hist>>

\* The tasks no call runs on and no task of the provider awaits.
FreeTasks ==
    {t \in Tasks : /\ task[t].pc \in {"idle", "done"}
                   /\ \A j \in JobIds : Job(j).call # t}
FreeTask == CHOOSE t \in FreeTasks : \A u \in FreeTasks : t <= u

\* interface.op(..).await: the task j calls an operation of its Interface
\* and is suspended until the call returns.
Await(j, rec, pc) ==
    /\ FreeTasks # {}
    /\ task' = [task EXCEPT ![FreeTask] = rec]
    /\ midi' = [midi EXCEPT !.jobs[j].call = FreeTask, !.jobs[j].pc = pc]
Returned(j) == Job(j).call # NoTask /\ task[Job(j).call].pc = "done"

\* Console::handle_value: the receive task of the console adapter calls
\* set_value through the console's Interface for a value the device sent in
\* answer to a request.
console_reply(t, n) ==
    /\ t \in FreeTasks
    /\ calls < n
    /\ \E K \in pending, v \in Values : begin_set_value(t, 0, K, v)
    /\ calls' = calls + 1
    /\ UNCHANGED <<env, cache, waiters, console, originator, lastInserted,
                   lastDone, lateReply>>

\* let controller = controller.lock().await in the task spawned by
\* set_interface, and controller_for_spawn.lock().await in the task spawned
\* for a button.
mj_lock(j) ==
    /\ Job(j).pc = "ctl_lock"
    /\ midi.ctl = NoHolder
    /\ midi' = [midi EXCEPT
           !.ctl = j,
           !.jobs[j].pc = IF Job(j).kind = "set_interface"
                          THEN "si_replace" ELSE "do_function"]
    /\ UNCHANGED <<task, core>>

\* controller.interface.lock().await.replace(interface): the guard is a
\* temporary of the statement.
si_replace(j) ==
    /\ Job(j).pc = "si_replace"
    /\ midi.ifmx = NoHolder
    /\ midi' = [midi EXCEPT !.interface = TRUE, !.jobs[j].pc = "rb_lock"]
    /\ UNCHANGED <<task, core>>

\* Faulty variant: NextBank steps past the last bank (no % banks.len()).
do_function_no_wrap(j) ==
    /\ Job(j).pc = "do_function"
    /\ midi' = [midi EXCEPT
           !.current_bank =
               IF Job(j).fn = "NextBank"
               THEN midi.current_bank + 1
               ELSE IF midi.current_bank = 0 THEN NumBanks - 1
                    ELSE midi.current_bank - 1,
           !.jobs[j].pc = "rb_lock"]
    /\ UNCHANGED <<task, core>>

\* Controller::do_function: NextBank and PreviousBank move current_bank
\* round the list of banks; refresh_bank follows.
do_function(j) ==
    /\ Job(j).pc = "do_function"
    /\ midi' = [midi EXCEPT
           !.current_bank =
               IF Job(j).fn = "NextBank"
               THEN (midi.current_bank + 1) % NumBanks
               ELSE IF midi.current_bank = 0 THEN NumBanks - 1
                    ELSE midi.current_bank - 1,
           !.jobs[j].pc = "rb_lock"]
    /\ UNCHANGED <<task, core>>

\* Controller::refresh_bank: self.interface.lock().await, and the early
\* return "Interface not set", which ends the task and drops its guard of
\* the Controller.
rb_lock(j) ==
    /\ Job(j).pc = "rb_lock"
    /\ midi.ifmx = NoHolder
    /\ midi' = IF midi.interface
               THEN [midi EXCEPT !.ifmx = j, !.jobs[j].k = 1,
                                 !.jobs[j].pc = "rb_fader"]
               ELSE [midi EXCEPT !.ctl = NoHolder, !.jobs[j].pc = "done"]
    /\ UNCHANGED <<task, core>>

\* One call of the loop over the faders of the bank, made under the
\* interface guard: request_value_notification_checked(Fader, false), then
\* request_value_notification for ScribbleColour and for ScribbleName.  After
\* the last fader the guard is dropped.
rb_request(j) ==
    /\ Job(j).pc \in {"rb_fader", "rb_colour", "rb_name"}
    /\ LET faders == banks[midi.current_bank]
       IN  IF Job(j).k > Len(faders)
           THEN /\ midi' = [midi EXCEPT !.ifmx = NoHolder,
                                        !.jobs[j].pc = "rm_lock"]
                /\ task' = task
           ELSE LET fader == faders[Job(j).k]
                    ty == CASE Job(j).pc = "rb_fader" -> "Fader"
                            [] Job(j).pc = "rb_colour" -> "ScribbleColour"
                            [] Job(j).pc = "rb_name" -> "ScribbleName"
                    op == IF Job(j).pc = "rb_fader"
                          THEN "request_value_notification_checked"
                          ELSE "request_value_notification"
                    pc == CASE Job(j).pc = "rb_fader" -> "rb_fader_wait"
                            [] Job(j).pc = "rb_colour" -> "rb_colour_wait"
                            [] Job(j).pc = "rb_name" -> "rb_name_wait"
                IN  Await(j, [Begin(FreeTask, op, MidiId,
                                    get_osc_path(fader, ty), "", FALSE)
                                 EXCEPT !.pc = "rvn_check"], pc)
    /\ UNCHANGED core

\* The awaited call has returned; a timeout of the checked request is only
\* logged.
rb_resume(j) ==
    /\ Job(j).pc \in {"rb_fader_wait", "rb_colour_wait", "rb_name_wait"}
    /\ Returned(j)
    /\ midi' = [midi EXCEPT
           !.jobs[j].call = NoTask,
           !.jobs[j].k = IF Job(j).pc = "rb_name_wait" THEN @ + 1 ELSE @,
           !.jobs[j].pc = CASE Job(j).pc = "rb_fader_wait" -> "rb_colour"
                            [] Job(j).pc = "rb_colour_wait" -> "rb_name"
                            [] Job(j).pc = "rb_name_wait" -> "rb_fader"]
    /\ UNCHANGED <<task, core>>

\* Controller::request_meters: let interface = self.interface.lock().await
rm_lock(j) ==
    /\ Job(j).pc = "rm_lock"
    /\ midi.ifmx = NoHolder
    /\ midi' = [midi EXCEPT !.ifmx = j, !.jobs[j].pc = "rm_subscribe"]
    /\ UNCHANGED <<task, core>>

\* interface.as_ref().unwrap().subscribe_to_meters(meters).await
rm_subscribe(j) ==
    /\ Job(j).pc = "rm_subscribe"
    /\ Await(j, [Idle EXCEPT !.pc = "stm_lock", !.op = "subscribe_to_meters",
                             !.id = MidiId,
                             !.val = BankMeters(midi.current_bank)],
             "rm_wait")
    /\ UNCHANGED core

\* The subscription has returned, its failure being logged; refresh_bank
\* returns and the task ends, which drops its guards.
rm_resume(j) ==
    /\ Job(j).pc = "rm_wait"
    /\ Returned(j)
    /\ midi' = [midi EXCEPT !.ifmx = NoHolder, !.ctl = NoHolder,
                            !.jobs[j].call = NoTask, !.jobs[j].pc = "done"]
    /\ UNCHANGED <<task, core>>

\* The task spawned for a fader movement: interface.lock().await and
\* .as_ref().unwrap(), which panics when no Interface was installed.
fj_lock(j) ==
    /\ Job(j).pc = "if_lock"
    /\ midi.ifmx = NoHolder
    /\ midi' = IF midi.interface
               THEN [midi EXCEPT !.ifmx = j, !.jobs[j].pc = "fj_set_value"]
               ELSE [midi EXCEPT !.jobs[j].pc = "panicked"]
    /\ UNCHANGED <<task, core>>

\* .set_value(&osc_addr, Value::Float(db_value)).await under the guard
fj_set_value(j) ==
    /\ Job(j).pc = "fj_set_value"
    /\ FreeTasks # {}
    /\ begin_set_value(FreeTask, MidiId, Job(j).path, Job(j).val)
    /\ midi' = [midi EXCEPT !.jobs[j].call = FreeTask,
                            !.jobs[j].pc = "fj_wait"]
    /\ UNCHANGED <<registry, cache, waiters, console, calls, originator,
                   lastInserted, lastDone, lateReply>>

\* set_value has returned: the task ends and drops the guard.
fj_resume(j) ==
    /\ Job(j).pc = "fj_wait"
    /\ Returned(j)
    /\ midi' = [midi EXCEPT !.ifmx = NoHolder, !.jobs[j].call = NoTask,
                            !.jobs[j].pc = "done"]
    /\ UNCHANGED <<task, core>>

\* The MIDI input thread calls midi_callback with a message: a pitch bend
\* of the first fader, or the note of the button of a bank function.
MidiMessages == {"PitchBend", "NextBank", "PreviousBank"}

cb_message ==
    /\ midi.cb.pc = "idle"
    /\ midi.events < MaxMidiEvents
    /\ \E msg \in MidiMessages, v \in Values :
          /\ msg # "PitchBend" => v = "v1"
          /\ midi' = [midi EXCEPT
                 !.cb = [pc |-> "lock", msg |-> msg,
                         val |-> IF msg = "PitchBend" THEN v ELSE ""],
                 !.events = @ + 1]
    /\ UNCHANGED <<task, core>>

\* let mut controller_lock = controller.blocking_lock(): the thread is
\* blocked for as long as a task holds the Controller.
cb_lock ==
    /\ midi.cb.pc = "lock"
    /\ midi.ctl = NoHolder
    /\ midi' = [midi EXCEPT !.ctl = CallbackThread, !.cb.pc = "locked"]
    /\ UNCHANGED <<task, core>>

\* The match on the message.  PitchBend: a task is spawned that will call
\* set_value for the fader of the current bank, the message is echoed and
\* the callback returns, dropping the lock.  NoteOn of a function button:
\* the lock is dropped and a task is spawned that will run do_function.
cb_dispatch ==
    /\ midi.cb.pc = "locked"
    /\ FreeJobs(midi) # {}
    /\ LET fader == banks[midi.current_bank][1]
           left == [midi EXCEPT !.ctl = NoHolder, !.cb = CallbackIdle]
       IN  midi' =
             IF midi.cb.msg = "PitchBend"
             THEN Spawn([left EXCEPT !.out = Append(@,
                             <<"PitchBend", 0, midi.cb.val>>)],
                        [NoJob EXCEPT !.kind = "fader", !.pc = "if_lock",
                             !.path = get_osc_path(fader, "Fader"),
                             !.val = midi.cb.val])
             ELSE Spawn(left,
                        [NoJob EXCEPT !.kind = "function", !.pc = "ctl_lock",
                             !.fn = midi.cb.msg])
    /\ UNCHANGED <<task, core>>

\* let mut controller = controller.lock().await in a task spawned by
\* write: the tasks get the lock in the order the runtime polls them.
mw_lock ==
    /\ midi.ctl = NoHolder
    /\ \E i \in 1..Len(midi.writes) :
          midi' = [midi EXCEPT
              !.ctl = WriteTask,
              !.writer = midi.writes[i],
              !.writes = SubSeq(@, 1, i - 1) \o SubSeq(@, i + 1, Len(@))]
    /\ UNCHANGED <<task, core>>

\* controller.process_osc_input(&addr, &value).await: every fader of the
\* current bank the path belongs to is sent the value over MIDI; the task
\* ends and drops the lock.
mw_process ==
    /\ midi.ctl = WriteTask
    /\ LET faders == banks[midi.current_bank]
           hit(i) == path_matches(faders[i], midi.writer[1]) # {}
           idx == SelectSeq([i \in 1..Len(faders) |-> i], hit)
       IN  midi' = [midi EXCEPT
               !.ctl = NoHolder,
               !.writer = <<>>,
               !.out = @ \o [n \in 1..Len(idx) |->
                       <<CHOOSE ty \in path_matches(faders[idx[n]],
                                                    midi.writer[1]) : TRUE,
                         idx[n] - 1, midi.writer[2]>>]]
    /\ UNCHANGED <<task, core>>

\* ------------------------------------------------- failing endpoints
\* From now on the calls on endpoint Q return Err: the console adapter
\* (Q = 0) has lost the device or is given an address it cannot resolve, a
\* provider (Q >= 1) cannot reach its hardware.
endpoint_fails(Q) ==
    /\ Q \notin faulty
    /\ faulty' = faulty \cup {Q}
    /\ UNCHANGED <<cache, waiters, console, pending, task, calls, hist,
                   consoleIface, providerIface, built, meters, meterTask,
                   spawned, subscribed, midi>>

\* The calls on endpoint Q return Ok again.
endpoint_recovers(Q) ==
    /\ Q \in faulty
    /\ faulty' = faulty \ {Q}
    /\ UNCHANGED <<cache, waiters, console, pending, task, calls, hist,
                   consoleIface, providerIface, built, meters, meterTask,
                   spawned, subscribed, midi>>

\* ----------------------------------------------------------------- Spec
\* Every Interface operation, from any task, through any Interface.
Next ==
    \E t \in Tasks :
        \/ call_set_value(t, MaxCalls)
        \/ call_get_value(t, MaxCalls)
        \/ call_ensure_value(t, MaxCalls)
        \/ call_request_value_notification(t, MaxCalls)
        \/ call_request_value_notification_checked(t, MaxCalls)
        \/ sv_insert(t)
        \/ sv_notify(t)
        \/ sv_lock(t)
        \/ sv_console(t)
        \/ wfv_check(t)
        \/ req_lock(t)
        \/ req_send(t)
        \/ wfv_notified(t)
        \/ wfv_recheck(t)
        \/ timer(t)
        \/ timeout(t)
        \/ ev_check(t)
        \/ rvn_check(t)
        \/ rvn_read(t)
        \/ notify_provider_by_id(t)
        \/ nid_console(t)

Spec == Init /\ [][Next]_vars

\* Writers and readers only, one call more.
NextRW ==
    \E t \in Tasks :
        \/ call_set_value(t, MaxRWCalls)
        \/ call_get_value(t, MaxRWCalls)
        \/ sv_insert(t)
        \/ sv_notify(t)
        \/ sv_lock(t)
        \/ sv_console(t)
        \/ wfv_check(t)
        \/ req_lock(t)
        \/ req_send(t)
        \/ wfv_notified(t)
        \/ wfv_recheck(t)
        \/ timer(t)
        \/ timeout(t)

SpecRW == Init /\ [][NextRW]_vars

\* The runtime polls every task that can run and its timers fire: a task
\* inside a call is not left unscheduled for ever.
Run(t) ==
    \/ sv_insert(t) \/ sv_notify(t) \/ sv_lock(t) \/ sv_console(t)
    \/ wfv_check(t) \/ req_lock(t) \/ req_send(t) \/ wfv_notified(t)
    \/ wfv_recheck(t) \/ timer(t) \/ timeout(t)

\* Writers and readers under that scheduling.
NextLive ==
    \E t \in Tasks :
        \/ call_set_value(t, MaxCalls)
        \/ call_get_value(t, MaxCalls)
        \/ Run(t)

SpecLive == Init /\ [][NextLive]_vars /\ \A t \in Tasks : WF_vars(Run(t))

\* The caller of an Interface operation holds the interface mutex of its
\* adapter for the whole call (Console.interface in handle_value and in the
\* meter task, Controller.interface in refresh_bank, request_meters and the
\* task of a fader movement): no other call through the same Interface is
\* in flight when the call of t starts.
InFlight(t) == task[t].pc \notin {"idle", "done"}
HoldsInterfaceMutex(t) ==
    \A u \in Tasks \ {t} : InFlight(u) => task[u].id # task'[t].id

\* The steps of the operations that take no timeout, and of a reader next
\* to them.
RunAll(t) ==
    \/ Run(t) \/ ev_check(t) \/ rvn_check(t) \/ rvn_read(t)
    \/ notify_provider_by_id(t) \/ nid_console(t)

\* set_value, ensure_value, request_value_notification and set_meters called
\* by the adapters, each under its interface mutex, next to timed readers,
\* all scheduled fairly.
NextBlock ==
    \E t \in Tasks :
        \/ call_set_value(t, MaxCalls) /\ HoldsInterfaceMutex(t)
        \/ call_ensure_value(t, MaxCalls) /\ HoldsInterfaceMutex(t)
        \/ call_request_value_notification(t, MaxCalls)
              /\ HoldsInterfaceMutex(t)
        \/ call_get_value(t, MaxCalls) /\ HoldsInterfaceMutex(t)
        \/ set_meters(t, MaxCalls)
        \/ RunAll(t)

SpecBlock ==
    InitMeters /\ [][NextBlock]_vars /\ \A t \in Tasks : WF_vars(RunAll(t))

\* Writers and readers while the console adapter and the providers fail and
\* recover.
NextFail ==
    \/ \E t \in Tasks :
          \/ call_set_value(t, MaxCalls)
          \/ call_get_value(t, MaxCalls)
          \/ sv_insert(t)
          \/ sv_notify(t)
          \/ sv_lock(t)
          \/ sv_console(t)
          \/ wfv_check(t)
          \/ req_lock(t)
          \/ req_send(t)
          \/ wfv_notified(t)
          \/ wfv_recheck(t)
          \/ timer(t)
          \/ timeout(t)
    \/ \E Q \in Ids :
          \/ endpoint_fails(Q)
          \/ endpoint_recovers(Q)

SpecFail == Init /\ [][NextFail]_vars

\* The endpoints that fail while meters are streamed: the console adapter and
\* the first provider of the list, the one written before the others.
MeterFaults == {0, identity(0)}

\* The meters next to writers and readers, while the console adapter and the
\* providers fail and recover: subscriptions through any Interface and the
\* batches the console adapter's meter task hands to Interface::set_meters.
NextMeters ==
    \/ \E t \in Tasks :
          \/ call_set_value(t, MaxMeterCalls)
          \/ call_get_value(t, MaxMeterCalls)
          \/ call_subscribe_to_meters(t, MaxMeterCalls)
          \/ set_meters(t, MaxMeterCalls)
          \/ stm_lock(t)
          \/ stm_console(t)
          \/ sv_insert(t)
          \/ sv_notify(t)
          \/ sv_lock(t)
          \/ sv_console(t)
          \/ wfv_check(t)
          \/ req_lock(t)
          \/ req_send(t)
          \/ wfv_notified(t)
          \/ wfv_recheck(t)
          \/ timer(t)
          \/ timeout(t)
    \/ \E Q \in MeterFaults :
          \/ endpoint_fails(Q)
          \/ endpoint_recovers(Q)

SpecMeters == InitMeters /\ [][NextMeters]_vars

\* The state in which Orchestrator::new returns when the first provider is
\* the Controller: its set_interface has spawned the task that will install
\* the Interface and refresh the bank, and that task has not run yet.  The
\* paths are those of the faders of the banks.
InitMidi ==
    /\ consoleIface = <<0>>
    /\ providerIface = [i \in Positions |-> <<identity(i)>>]
    /\ built = TRUE
    /\ faulty = {}
    /\ meters = NoMeters
    /\ meterTask = FALSE
    /\ spawned = 0
    /\ subscribed = NoMeters
    /\ midi = Spawn([MidiInit EXCEPT !.attached = TRUE],
                    [NoJob EXCEPT !.kind = "set_interface",
                                  !.pc = "ctl_lock"])
    /\ cache = [K \in MidiPaths |-> NoValue]
    /\ waiters = {}
    /\ console = NoTask
    /\ pending = {}
    /\ task = [t \in Tasks |-> Idle]
    /\ calls = 0
    /\ originator = [K \in MidiPaths |-> 0]
    /\ lastInserted = [K \in MidiPaths |-> NoValue]
    /\ lastCalled = [K \in MidiPaths |-> NoValue]
    /\ prevCalled = [K \in MidiPaths |-> NoValue]
    /\ lastDone = [K \in MidiPaths |-> NoValue]
    /\ overlap = [K \in MidiPaths |-> "none"]
    /\ notifReq = {}
    /\ timedOut = {}
    /\ lateReply = [K \in MidiPaths |-> NoValue]

\* The Controller at work: the tasks it spawns, its input callback, the
\* Interface calls they make and the answers of the console.
NextMidi ==
    \/ \E j \in JobIds :
          \/ mj_lock(j)
          \/ si_replace(j)
          \/ do_function(j)
          \/ rb_lock(j)
          \/ rb_request(j)
          \/ rb_resume(j)
          \/ rm_lock(j)
          \/ rm_subscribe(j)
          \/ rm_resume(j)
          \/ fj_lock(j)
          \/ fj_set_value(j)
          \/ fj_resume(j)
    \/ cb_message
    \/ cb_lock
    \/ cb_dispatch
    \/ mw_lock
    \/ mw_process
    \/ \E t \in Tasks :
          \/ console_reply(t, MaxMidiCalls)
          \/ sv_insert(t)
          \/ sv_notify(t)
          \/ sv_lock(t)
          \/ sv_console(t)
          \/ wfv_check(t)
          \/ req_lock(t)
          \/ req_send(t)
          \/ wfv_notified(t)
          \/ wfv_recheck(t)
          \/ timer(t)
          \/ timeout(t)
          \/ rvn_check(t)
          \/ rvn_read(t)
          \/ notify_provider_by_id(t)
          \/ stm_lock(t)
          \/ stm_console(t)

SpecMidi == InitMidi /\ [][NextMidi]_vars

\* Notification requests next to writers and to ensure_value, from a cache
\* that may hold a value already.
NextCached ==
    \E t \in Tasks :
        \/ call_set_value(t, MaxCalls)
        \/ call_ensure_value(t, MaxCalls)
        \/ call_request_value_notification(t, MaxCalls)
        \/ call_request_value_notification_checked(t, MaxCalls)
        \/ sv_insert(t)
        \/ sv_notify(t)
        \/ sv_lock(t)
        \/ sv_console(t)
        \/ wfv_check(t)
        \/ req_lock(t)
        \/ req_send(t)
        \/ wfv_notified(t)
        \/ wfv_recheck(t)
        \/ timer(t)
        \/ timeout(t)
        \/ ev_check(t)
        \/ rvn_check(t)
        \/ rvn_read(t)
        \/ notify_provider_by_id(t)
        \/ nid_console(t)

SpecCached == InitCached /\ [][NextCached]_vars

\* Later, when the task spawned by set_interface has stored the Interface
\* and refreshed the bank and has ended: the Controller is the first
\* provider and none of its tasks runs.
InitWrites ==
    /\ consoleIface = <<0>>
    /\ providerIface = [i \in Positions |-> <<identity(i)>>]
    /\ built = TRUE
    /\ faulty = {}
    /\ meters = NoMeters
    /\ meterTask = FALSE
    /\ spawned = 0
    /\ subscribed = NoMeters
    /\ midi = [MidiInit EXCEPT !.attached = TRUE, !.interface = TRUE]
    /\ cache = [K \in Paths |-> NoValue]
    /\ waiters = {}
    /\ console = NoTask
    /\ pending = {}
    /\ task = [t \in Tasks |-> Idle]
    /\ calls = 0
    /\ originator = [K \in Paths |-> 0]
    /\ lastInserted = [K \in Paths |-> NoValue]
    /\ lastCalled = [K \in Paths |-> NoValue]
    /\ prevCalled = [K \in Paths |-> NoValue]
    /\ lastDone = [K \in Paths |-> NoValue]
    /\ overlap = [K \in Paths |-> "none"]
    /\ notifReq = {}
    /\ timedOut = {}
    /\ lateReply = [K \in Paths |-> NoValue]

\* The writers whose values the orchestrator delivers to the Controller, and
\* the tasks the Controller spawns to process them.
NextWrites ==
    \/ \E t \in Tasks :
          \/ call_set_value(t, MaxCalls)
          \/ sv_insert(t)
          \/ sv_notify(t)
          \/ sv_lock(t)
          \/ sv_console(t)
    \/ mw_lock
    \/ mw_process

SpecWrites == InitWrites /\ [][NextWrites]_vars

\* ------------------------------------------------------- the paths of a Fader
\* Strings as sequences of characters, so that format! and rsplitn work on
\* what they work on in the program.
Chars(w) ==
    CASE w = "/ch" -> <<"/", "c", "h">>
      [] w = "/bus" -> <<"/", "b", "u", "s">>
      [] w = "/dca" -> <<"/", "d", "c", "a">>
      [] w = "/fdr" -> <<"/", "f", "d", "r">>
      [] w = "/pan" -> <<"/", "p", "a", "n">>
      [] w = "/mute" -> <<"/", "m", "u", "t", "e">>
      [] w = "/$col" -> <<"/", "$", "c", "o", "l">>
      [] w = "/$name" -> <<"/", "$", "n", "a", "m", "e">>
      [] w = "led" -> <<"l", "e", "d">>
      [] w = "fdr" -> <<"f", "d", "r">>
      [] w = "pan" -> <<"p", "a", "n">>
      [] w = "mute" -> <<"m", "u", "t", "e">>
      [] w = "$col" -> <<"$", "c", "o", "l">>
      [] w = "$name" -> <<"$", "n", "a", "m", "e">>

\* enum PathType
AllPathTypes == {"Fader", "Panning", "Mute", "ScribbleColour",
                 "ScribbleName", "ScribbleLed"}

\* The labels of the configuration: the word of a fader type and the digits
\* of an index, which the regex ^(\w+)\s*(\d+)?$ has separated.
Labels == << <<"channel", <<"1">>>>, <<"ch", <<"2">>>>, <<"chan", <<"1", "2">>>>,
             <<"bus", <<"1">>>>, <<"bus", <<"2">>>>, <<"dca", <<"1">>>> >>

\* Fader::new_from_label: osc_directory = format!("/ch/{}", index) and the
\* like for the other fader types.
new_from_label(label) ==
    LET base == label[1]
        index == label[2]
        dir == CASE base \in {"channel", "ch", "chan"} -> Chars("/ch")
                 [] base = "bus" -> Chars("/bus")
                 [] base = "dca" -> Chars("/dca")
    IN  dir \o <<"/">> \o index

\* Fader::get_osc_path: format!("{}/fdr", self.osc_directory) and so on;
\* ScribbleLed is format!("{}led", self.osc_directory).
Fader_get_osc_path(osc_directory, path_type) ==
    CASE path_type = "Fader" -> osc_directory \o Chars("/fdr")
      [] path_type = "Panning" -> osc_directory \o Chars("/pan")
      [] path_type = "Mute" -> osc_directory \o Chars("/mute")
      [] path_type = "ScribbleColour" -> osc_directory \o Chars("/$col")
      [] path_type = "ScribbleName" -> osc_directory \o Chars("/$name")
      [] path_type = "ScribbleLed" -> osc_directory \o Chars("led")

\* osc_path.rsplitn(2, '/').collect(): what follows the last slash, then
\* what precedes it; the whole string alone when it has no slash.
rsplitn2(s) ==
    LET slashes == {i \in 1..Len(s) : s[i] = "/"}
    IN  IF slashes = {} THEN <<s>>
        ELSE LET last == CHOOSE i \in slashes : \A k \in slashes : k <= i
             IN  <<SubSeq(s, last + 1, Len(s)), SubSeq(s, 1, last - 1)>>

\* Fader::path_matches: None unless the path is the directory of the fader,
\* a slash and one of the six names.
Fader_path_matches(osc_directory, osc_path) ==
    LET parts == rsplitn2(osc_path)
    IN  IF Len(parts) # 2 THEN NoValue
        ELSE IF parts[2] # osc_directory THEN NoValue
        ELSE CASE parts[1] = Chars("fdr") -> "Fader"
               [] parts[1] = Chars("pan") -> "Panning"
               [] parts[1] = Chars("mute") -> "Mute"
               [] parts[1] = Chars("$col") -> "ScribbleColour"
               [] parts[1] = Chars("$name") -> "ScribbleName"
               [] parts[1] = Chars("led") -> "ScribbleLed"
               [] OTHER -> NoValue

\* fader.get_osc_path(path_type) of the fader built from a label.
call_get_osc_path(t, n) ==
    /\ CanCall(t, n)
    /\ \E f \in 1..Len(Labels), ty \in AllPathTypes :
          task' = [task EXCEPT ![t] =
              [Idle EXCEPT
                  !.pc = "path_matches", !.op = "path_matches",
                  !.id = f, !.val = ty,
                  !.path = Fader_get_osc_path(new_from_label(Labels[f]), ty)]]
    /\ calls' = calls + 1
    /\ UNCHANGED <<env, cache, waiters, console, pending, hist>>

\* fader.path_matches(osc_path) of any fader, as in process_osc_input, for
\* the path built.
pm_match(t) ==
    /\ task[t].pc = "path_matches"
    /\ \E g \in 1..Len(Labels) :
          task' = [task EXCEPT ![t] =
              [Done(t, OkValue(Fader_path_matches(new_from_label(Labels[g]),
                                                  task[t].path)))
                  EXCEPT !.i = g]]
    /\ UNCHANGED <<env, cache, waiters, console, pending, calls, hist>>

\* The paths of the configured faders, built and matched.
NextPaths ==
    \E t \in Tasks :
        \/ call_get_osc_path(t, MaxCalls)
        \/ pm_match(t)

SpecPaths == Init /\ [][NextPaths]_vars

\* Orchestrator::notify_provider_by_id on its own, next to writers.
NextNotify ==
    \E t \in Tasks :
        \/ call_set_value(t, MaxRWCalls)
        \/ call_notify_provider_by_id(t, MaxRWCalls)
        \/ sv_insert(t)
        \/ sv_notify(t)
        \/ sv_lock(t)
        \/ sv_console(t)
        \/ notify_provider_by_id(t)
        \/ nid_console(t)

SpecNotify == Init /\ [][NextNotify]_vars

\* Orchestrator::new from the start, and the writers and readers that hold
\* the Interfaces it has handed out.
NextNew ==
    \E t \in Tasks :
        \/ new_lock(t)
        \/ new_console(t)
        \/ new_provider(t)
        \/ new_return(t)
        \/ call_set_value(t, MaxNewCalls)
        \/ call_get_value(t, MaxNewCalls)
        \/ sv_insert(t)
        \/ sv_notify(t)
        \/ sv_lock(t)
        \/ sv_console(t)
        \/ wfv_check(t)
        \/ req_lock(t)
        \/ req_send(t)
        \/ wfv_notified(t)
        \/ wfv_recheck(t)
        \/ timer(t)
        \/ timeout(t)

SpecNew == InitNew /\ [][NextNew]_vars

\* Everything that runs against the orchestrator: Orchestrator::new from the
\* start, every Interface operation through the Interfaces handed out, and
\* the meters.
NextAll ==
    \E t \in Tasks :
        \/ new_lock(t)
        \/ new_console(t)
        \/ new_provider(t)
        \/ new_return(t)
        \/ call_set_value(t, MaxNewCalls)
        \/ call_get_value(t, MaxNewCalls)
        \/ call_ensure_value(t, MaxNewCalls)
        \/ call_request_value_notification(t, MaxNewCalls)
        \/ call_request_value_notification_checked(t, MaxNewCalls)
        \/ call_subscribe_to_meters(t, MaxNewCalls)
        \/ set_meters(t, MaxNewCalls)
        \/ sv_insert(t)
        \/ sv_notify(t)
        \/ sv_lock(t)
        \/ sv_console(t)
        \/ wfv_check(t)
        \/ req_lock(t)
        \/ req_send(t)
        \/ wfv_notified(t)
        \/ wfv_recheck(t)
        \/ timer(t)
        \/ timeout(t)
        \/ ev_check(t)
        \/ rvn_check(t)
        \/ rvn_read(t)
        \/ notify_provider_by_id(t)
        \/ nid_console(t)
        \/ stm_lock(t)
        \/ stm_console(t)

SpecAll == InitNew /\ [][NextAll]_vars

\* ================================================================ claims
IsDone(t, op) == task[t].pc = "done" /\ task[t].op = op
Writes(log) == {i \in 1..Len(log) : log[i].ev = "write"}

\* C1 (loop avoidance): a completed set_value(K, v) through the Interface of
\* P has called write(K, v) exactly once on every registered provider other
\* than P and made no other write, has called the console adapter's
\* set_value(K, v) exactly once when P is not the console and not at all
\* when it is, and has never written to P; with no other insert for K since
\* its own, the cache maps K to v.
C1_LoopAvoidance ==
    \A t \in Tasks :
        task[t].op = "set_value" =>
            LET P == task[t].id
                K == task[t].path
                v == task[t].val
                log == task[t].log
            IN  /\ \A i \in Writes(log) : log[i].to # P
                /\ task[t].pc = "done" =>
                    /\ \A Q \in 1..NumProviders :
                          Count(log, EvWrite(Q, K, v))
                              = IF Q = P THEN 0 ELSE 1
                    /\ Cardinality(Writes(log))
                          = Cardinality((1..NumProviders) \ {P})
                    /\ Count(log, EvConsoleSet(K, v))
                          = IF P = 0 THEN 0 ELSE 1
                    /\ CountEv(log, "console.set_value")
                          = IF P = 0 THEN 0 ELSE 1
                    /\ ~task[t].touched => cache[K] = v

\* Provider 1 has set a value: the console and provider 2 were told once.
C1_Witness ==
    \E t \in Tasks :
        /\ IsDone(t, "set_value")
        /\ task[t].id = 1
        /\ ~task[t].touched
        /\ cache[task[t].path] = task[t].val
        /\ Count(task[t].log, EvWrite(2, task[t].path, task[t].val)) = 1
        /\ Count(task[t].log, EvConsoleSet(task[t].path, task[t].val)) = 1

\* The interface whose set_value originated the value a call delivers.
OriginOf(t) == IF task[t].op = "set_value" THEN task[t].id ELSE task[t].vorig

\* C2 as stated: no call ever writes to a provider a value that this
\* provider originated through its own set_value.
C2_Original ==
    \A t \in Tasks :
        \A i \in Writes(task[t].log) : task[t].log[i].to # OriginOf(t)

\* C2 as amended: a provider is written a value it originated itself only
\* by its own request_value_notification or request_value_notification_checked
\* for a cached path, never by the fan-out of a set_value.
C2_NoEchoFromFanout ==
    \A t \in Tasks :
        \A i \in Writes(task[t].log) :
            task[t].log[i].to = OriginOf(t) =>
                /\ task[t].op \in {"request_value_notification",
                                   "request_value_notification_checked"}
                /\ task[t].id = task[t].log[i].to

\* A provider asked to be notified of the value it had set itself.
C2_Witness ==
    \E t \in Tasks :
        /\ IsDone(t, "request_value_notification")
        /\ task[t].id # 0
        /\ task[t].vorig = task[t].id
        /\ task[t].log
             = <<EvWrite(task[t].id, task[t].path, task[t].val)>>

\* The first look of a get_value(K, false) at the cache, taken by task t.
FirstLook(t, K) ==
    /\ task[t].pc = "wfv_check"
    /\ task[t].op = "get_value"
    /\ ~task[t].force
    /\ task[t].path = K
    /\ task'[t].pc # "wfv_check"

\* C3 (last write wins, sequential): when the latest set_value for K was
\* called after every earlier one had completed, and has completed itself,
\* a get_value(K, false) that looks at the cache returns the value of that
\* latest call.
C3_LastWriteWins ==
    [][\A t \in Tasks, K \in Paths :
          (/\ FirstLook(t, K)
           /\ lastCalled[K] # NoValue
           /\ overlap[K] = "none"
           /\ ~SetInFlight(K))
          => /\ task'[t].pc = "done"
             /\ task'[t].result = OkValue(lastCalled[K])]_vars

\* set_value(K, v1) completed, then set_value(K, v2) with another value ran
\* alone and completed, then get_value(K, false) returned v2.
C3_Witness ==
    \E t \in Tasks :
        LET K == task[t].path
        IN  /\ IsDone(t, "get_value")
            /\ ~task[t].force
            /\ task[t].hit /\ task[t].idleK /\ task[t].ovl = "none"
            /\ prevCalled[K] \in Values \ {lastCalled[K]}
            /\ lastDone[K] = lastCalled[K]
            /\ task[t].result = OkValue(lastCalled[K])

C5_NoLostWakeup ==
    \A t \in Tasks :
        (/\ IsDone(t, "get_value")
         /\ Requests(task[t].log) = 1
         /\ task[t].signalled)
        => task[t].result # Timeout

\* C6 (cache hit short-circuit): a completed get_value(K, false) that found
\* K cached when it was called has returned a value, the cached one when no
\* insert for K came in between, has issued no console request and has
\* created no Notified future.
C6_CacheHit ==
    \A t \in Tasks :
        (/\ IsDone(t, "get_value")
         /\ ~task[t].force
         /\ task[t].cached0)
        => /\ task[t].result.kind = "value"
           /\ task[t].result.val \in Values
           /\ ~task[t].touched => task[t].result.val = cache[task[t].path]
           /\ task[t].log = <<>>

C6_Witness ==
    \E t \in Tasks :
        /\ IsDone(t, "get_value")
        /\ ~task[t].force
        /\ task[t].cached0
        /\ ~task[t].touched
        /\ task[t].result = OkValue(cache[task[t].path])
        /\ task[t].log = <<>>

\* A get_value(K, true) is running on task t; it has ended.
ForcedGet(t, K) ==
    /\ task[t].op = "get_value" /\ task[t].force /\ task[t].path = K
    /\ task[t].pc # "done"
ForcedGetDone(t, K) ==
    /\ task[t].op = "get_value" /\ task[t].force /\ task[t].path = K
    /\ task[t].pc = "done"

\* C7 (timeout fires): when K is never inserted into the cache, every
\* get_value(K, true) ends, with the timeout error and never with a value,
\* and only after its deadline has passed.
C7_TimeoutFires ==
    \A t \in Tasks, K \in Paths :
        [](cache[K] = NoValue) =>
            /\ [](ForcedGet(t, K) =>
                    <>(ForcedGetDone(t, K) /\ task[t].result = Timeout))
            /\ [](ForcedGetDone(t, K) =>
                    task[t].result = Timeout /\ task[t].expired)

C7_Witness ==
    \E t \in Tasks :
        /\ ForcedGetDone(t, task[t].path)
        /\ cache[task[t].path] = NoValue
        /\ task[t].result = Timeout
        /\ task[t].expired

\* C8 (a timeout does not cancel the request): the request of a reader that
\* timed out stays with the console until the console answers; the answer
\* is inserted into the cache by the console's set_value; and a
\* get_value(K, false) called while the cache holds that answer returns a
\* value, the answer itself when no other insert came in, without a console
\* request.
C8_LateReply ==
    /\ timedOut \subseteq pending
    /\ \A K \in Paths : lateReply[K] # NoValue => cache[K] = lateReply[K]
    /\ \A t \in Tasks :
          (/\ task[t].op = "set_value" /\ task[t].late
           /\ task[t].pc \notin {"sv_insert"})
          => /\ task[t].log[1] = EvInsert(task[t].path, task[t].val)
             /\ contains_key(cache, task[t].path)
    /\ \A t \in Tasks :
          (/\ IsDone(t, "get_value")
           /\ ~task[t].force
           /\ task[t].lateAt # NoValue)
          => /\ task[t].result.kind = "value"
             /\ ~task[t].touched => task[t].result = OkValue(task[t].lateAt)
             /\ Requests(task[t].log) = 0

\* A reader timed out, the console answered afterwards, and the next reader
\* got the answer from the cache.
C8_Witness ==
    \E t \in Tasks :
        /\ IsDone(t, "get_value")
        /\ ~task[t].force
        /\ task[t].lateAt \in Values
        /\ task[t].result = OkValue(task[t].lateAt)
        /\ task[t].log = <<>>

\* A completed request_value_notification(K, false) that found K cached.
CachedNotification(t) ==
    /\ IsDone(t, "request_value_notification")
    /\ ~task[t].force
    /\ task[t].cached0

\* C9 as stated: it has made exactly one write, to a peer of the requesting
\* provider, and no console request.
C9_Original ==
    \A t \in Tasks :
        CachedNotification(t) =>
            /\ Cardinality(Writes(task[t].log)) = 1
            /\ \A i \in Writes(task[t].log) : task[t].log[i].to # task[t].id
            /\ Requests(task[t].log) = 0

\* C9 as amended: it has made exactly one delivery, to the requester itself
\* (its write for a provider, the console adapter's set_value for the
\* console), carrying the value read from the cache, and nothing else: no
\* write to a peer and no console request.
C9_NotifiesRequester ==
    \A t \in Tasks :
        CachedNotification(t) =>
            LET K == task[t].path
                v == task[t].val
            IN  /\ task[t].log = << IF task[t].id = 0
                                    THEN EvConsoleSet(K, v)
                                    ELSE EvWrite(task[t].id, K, v) >>
                /\ v \in Values
                /\ ~task[t].touched => v = cache[K]

C9_Witness ==
    \E t \in Tasks :
        /\ CachedNotification(t)
        /\ task[t].id = 2
        /\ ~task[t].touched
        /\ task[t].log
             = <<EvWrite(2, task[t].path, cache[task[t].path])>>

\* C10: a completed request_value_notification(K, f) of a provider that was
\* forced or found K missing has issued one console request and nothing
\* else; and a set_value of the console that answers the request has written
\* the value once to every provider whose notification request was
\* outstanding.
C10_RequestThenFanout ==
    \A t \in Tasks :
        /\ (/\ IsDone(t, "request_value_notification")
            /\ task[t].id # 0
            /\ (task[t].force \/ task[t].miss))
           => task[t].log = <<EvRequest(task[t].path)>>
        /\ (IsDone(t, "set_value") /\ task[t].id = 0)
           => \A P \in task[t].reqBy :
                 Count(task[t].log,
                       EvWrite(P, task[t].path, task[t].val)) = 1

\* The console answered a request left by provider 1's notification request.
C10_Witness ==
    \E t \in Tasks :
        /\ IsDone(t, "set_value")
        /\ task[t].id = 0
        /\ 1 \in task[t].reqBy
        /\ Count(task[t].log, EvWrite(1, task[t].path, task[t].val)) = 1

\* The failures a call has logged for path K: the endpoints they name.
FailedOn(t) ==
    {task[t].errs[j].to : j \in 1..Len(task[t].errs)}

\* C11 (failure isolation in the fan-out): whichever recipient providers'
\* writes failed during a completed set_value(K, v), every recipient provider
\* had write(K, v) called exactly once, the call returned without a failure,
\* only recipients and the console adapter are named in the failures it
\* logged, and the cache maps K to v when no other insert for K followed.
C11_FailureIsolation ==
    \A t \in Tasks :
        IsDone(t, "set_value") =>
            LET P == task[t].id
                K == task[t].path
                v == task[t].val
            IN  /\ \A Q \in (1..NumProviders) \ {P} :
                      Count(task[t].log, EvWrite(Q, K, v)) = 1
                /\ task[t].result = OkUnit
                /\ FailedOn(t) \subseteq (0..NumProviders) \ {P}
                /\ ~task[t].touched => cache[K] = v

\* The console sent a value; the write of provider 1 failed, provider 2 was
\* written all the same and the call returned normally.
C11_Witness ==
    \E t \in Tasks :
        /\ IsDone(t, "set_value")
        /\ task[t].id = 0
        /\ task[t].errs = <<EvError(1, task[t].path)>>
        /\ Count(task[t].log, EvWrite(2, task[t].path, task[t].val)) = 1
        /\ task[t].result = OkUnit
        /\ ~task[t].touched
        /\ cache[task[t].path] = task[t].val

\* C12 (console failure containment): a completed set_value(K, v) of a
\* provider P during which the console adapter's set_value failed has
\* inserted (K, v), called notify_waiters once, called write(K, v) once on
\* every provider other than P and returned without a failure; the cache
\* maps K to v when no other insert for K followed.
C12_ConsoleFailureContained ==
    \A t \in Tasks :
        (/\ IsDone(t, "set_value")
         /\ task[t].id # 0
         /\ 0 \in FailedOn(t))
        => LET P == task[t].id
               K == task[t].path
               v == task[t].val
           IN  /\ Count(task[t].log, EvInsert(K, v)) = 1
               /\ Count(task[t].log, EvNotify) = 1
               /\ Count(task[t].log, EvConsoleSet(K, v)) = 1
               /\ \A Q \in (1..NumProviders) \ {P} :
                     Count(task[t].log, EvWrite(Q, K, v)) = 1
               /\ task[t].result = OkUnit
               /\ ~task[t].touched => cache[K] = v

\* Provider 1 set a value while the console adapter was failing: provider 2
\* was written and the cache holds the value.
C12_Witness ==
    \E t \in Tasks :
        /\ IsDone(t, "set_value")
        /\ task[t].id = 1
        /\ task[t].errs = <<EvError(0, task[t].path)>>
        /\ Count(task[t].log, EvWrite(2, task[t].path, task[t].val)) = 1
        /\ ~task[t].touched
        /\ cache[task[t].path] = task[t].val

\* C13 (only the read-path timeout is propagated): a completed get_value
\* has returned a value or the timeout error and nothing else; and one whose
\* console request failed has gone on to wait, and has returned a value,
\* not the timeout error, when after the request and before it returned the
\* path was inserted and the insert's notify_waiters was called.
C13_OnlyTimeoutPropagated ==
    \A t \in Tasks :
        IsDone(t, "get_value") =>
            /\ task[t].result.kind \in {"value", "timeout"}
            /\ 0 \in FailedOn(t) =>
                  /\ task[t].log[Len(task[t].log)] = EvListen
                  /\ task[t].signalled => task[t].result.kind = "value"

\* notify_provider_by_id is about to run on task t for an identity with no
\* entry in the provider list.
UnknownProvider(t) ==
    /\ task[t].pc = "nid"
    /\ task[t].id \notin 0..NumProviders

\* C14 (unknown provider identity): notify_provider_by_id for an identity
\* beyond the registered providers returns having called no provider's write
\* and nothing on the console adapter, without taking the console lock, and
\* leaves the cache as it was.
C14_UnknownProviderNoOp ==
    [][\A t \in Tasks :
          (UnknownProvider(t) /\ task'[t].pc # "nid")
          => /\ task'[t].pc = "done"
             /\ task'[t].log = <<>>
             /\ task'[t].result = OkUnit
             /\ console' = console
             /\ pending' = pending
             /\ cache' = cache]_vars

\* The call for identity NumProviders + 1 returned over a cache that holds
\* a value for its path: nothing was called.
C14_Witness ==
    \E t \in Tasks :
        /\ IsDone(t, "notify_provider_by_id")
        /\ task[t].id = NumProviders + 1
        /\ task[t].log = <<>>
        /\ task[t].errs = <<EvError(NumProviders + 1, task[t].path)>>
        /\ cache[task[t].path] \in Values

\* The identities an endpoint was given: those of the console adapter, and
\* those of the provider at position i.
Given(i) == {providerIface[i][j] : j \in 1..Len(providerIface[i])}
GivenConsole == {consoleIface[j] : j \in 1..Len(consoleIface)}

\* C15 (registration identities): the console adapter is only ever given
\* identity 0 and the provider at position i identity i + 1; the console
\* adapter is registered before every provider and the providers in the
\* order of the list; two endpoints never hold the same identity; after
\* Orchestrator::new has returned the identities are exactly
\* 0..NumProviders; and an identity once given is never changed or taken
\* back.
C15_RegistrationIdentities ==
    /\ [](/\ GivenConsole \subseteq {0}
          /\ \A i \in Positions : Given(i) \subseteq {i + 1}
          /\ \A i \in Positions : Given(i) \cap GivenConsole = {}
          /\ \A i, k \in Positions : i # k => Given(i) \cap Given(k) = {}
          /\ \A i \in Positions : Given(i) # {} => GivenConsole # {}
          /\ \A i, k \in Positions :
                (i < k /\ Given(k) # {}) => Given(i) # {}
          /\ built => Installed = 0..NumProviders
          /\ \A t \in Tasks :
                task[t].op \in {"set_value", "get_value"}
                    => task[t].id \in Installed)
    /\ [][/\ GivenConsole \subseteq {consoleIface'[j] :
                                        j \in 1..Len(consoleIface')}
          /\ \A i \in Positions :
                Given(i) \subseteq {providerIface'[i][j] :
                                       j \in 1..Len(providerIface'[i])}]_vars

\* Orchestrator::new has returned and the last provider has used the
\* Interface it was given, whose identity is the number of providers.
C15_Witness ==
    /\ built
    /\ consoleIface = <<0>>
    /\ \A i \in Positions : providerIface[i] = <<i + 1>>
    /\ \E t \in Tasks : IsDone(t, "set_value") /\ task[t].id = NumProviders

\* C16 (set_interface once): set_interface is never called twice on the
\* console adapter or on a provider; it has been called once on each of
\* them when Orchestrator::new returns; it is called only while
\* Orchestrator::new runs, and never after it has returned.
C16_SetInterfaceOnce ==
    /\ [](/\ Len(consoleIface) <= 1
          /\ \A i \in Positions : Len(providerIface[i]) <= 1
          /\ built => /\ Len(consoleIface) = 1
                      /\ \A i \in Positions : Len(providerIface[i]) = 1)
    /\ [][(consoleIface' # consoleIface \/ providerIface' # providerIface)
            => /\ ~built
               /\ task[MainTask].op = "new"
               /\ task[MainTask].pc \in {"new_console", "new_provider"}]_vars

\* Orchestrator::new returned long ago: every call of the behaviour has been
\* made and each endpoint was given its Interface once.
C16_Witness ==
    /\ built
    /\ calls = MaxNewCalls
    /\ \A t \in Tasks : task[t].pc = "done" /\ task[t].op # "new"
    /\ Len(consoleIface) = 1
    /\ \A i \in Positions : Len(providerIface[i]) = 1

\* The place of an event in the order of Interface::set_value.
Stage(e) ==
    IF e.ev = "insert" THEN 1
    ELSE IF e.ev = "notify_waiters" THEN 2
    ELSE IF e.ev = "console.set_value" THEN 3
    ELSE 4

\* C17 (ordering within one set_value): what a set_value has done so far is,
\* in this order, the cache insert, then notify_waiters, then for an
\* originator other than the console the console adapter's set_value, then
\* the writes to the providers in ascending identity; the insert is done
\* before anything else and a completed call has done every stage.
C17_SetValueOrder ==
    \A t \in Tasks :
        task[t].op = "set_value" =>
            LET log == task[t].log
                K == task[t].path
                v == task[t].val
            IN  /\ \A i, j \in 1..Len(log) :
                      i < j => /\ Stage(log[i]) <= Stage(log[j])
                               /\ Stage(log[i]) < 4
                                     => Stage(log[i]) < Stage(log[j])
                               /\ Stage(log[i]) = 4
                                     => log[i].to < log[j].to
                /\ Len(log) >= 1 => log[1] = EvInsert(K, v)
                /\ Len(log) >= 2 => log[2] = EvNotify
                /\ Len(log) >= 3 =>
                      log[3].ev = IF task[t].id # 0
                                  THEN "console.set_value" ELSE "write"
                /\ task[t].pc = "done" =>
                      Len(log) = 2 + (IF task[t].id # 0 THEN 1 ELSE 0)
                                   + Cardinality((1..NumProviders)
                                                    \ {task[t].id})

\* The console sent a value: insert, notify_waiters, write to provider 1,
\* write to provider 2.
C17_Witness ==
    \E t \in Tasks :
        LET K == task[t].path
            v == task[t].val
        IN  /\ IsDone(t, "set_value")
            /\ task[t].id = 0
            /\ task[t].log = <<EvInsert(K, v), EvNotify,
                               EvWrite(1, K, v), EvWrite(2, K, v)>>

\* The tasks inside an operation of the console adapter: set_interface,
\* set_value, request_value, set_meters.
InConsole ==
    {t \in Tasks : task[t].pc \in {"new_console", "sv_console", "req_send",
                                    "nid_console", "stm_console"}}

\* C18 (console access is serialized): at most one task is inside an
\* operation of the console adapter, and it is the task that holds the
\* console lock.
C18_ConsoleSerialized ==
    /\ Cardinality(InConsole) <= 1
    /\ \A t \in InConsole : console = t
    /\ console # NoTask => console \in InConsole

\* A task is inside Console::set_meters while a set_value of a provider waits
\* for the console lock.
C18_Witness ==
    \E t, u \in Tasks :
        /\ task[t].pc = "stm_console"
        /\ console = t
        /\ task[u].pc = "sv_lock"

\* Task u is at a point where its next step reads the cache entry of K.
ReadsNext(u, K) ==
    /\ task[u].path = K
    /\ \/ task[u].pc \in {"wfv_check", "ev_check"} /\ ~task[u].force
       \/ task[u].pc \in {"rvn_check", "rvn_read"}
       \/ task[u].pc = "wfv_wait" /\ u \notin waiters

\* C19 (insert and notification are atomic): there is no state in which a
\* set_value has inserted (K, v) and released the cache lock, has not yet
\* called notify_waiters, and another task is about to read the entry of K.
C19_InsertNotifyAtomic ==
    \A t, u \in Tasks :
        (/\ task[t].op = "set_value"
         /\ task[t].pc = "sv_notify"
         /\ u # t)
        => ~ReadsNext(u, task[t].path)

\* C20 (the cache is mutated only by set_value): every step that changes the
\* cache is the insert of a set_value and changes the entry of its path to
\* its value; no step of get_value, ensure_value, request_value_notification,
\* request_value_notification_checked, subscribe_to_meters, set_meters or
\* Orchestrator::new changes it, whatever the call returns.
C20_OnlySetValueMutates ==
    [][cache' # cache =>
          \E t \in Tasks :
              /\ task[t].op = "set_value"
              /\ task[t].pc = "sv_insert"
              /\ task'[t].pc = "sv_notify"
              /\ cache' = [cache EXCEPT ![task[t].path] = task[t].val]
              /\ \A u \in Tasks \ {t} : task'[u].pc = task[u].pc]_vars

\* A forced get_value of a cached path has timed out after its request, and
\* the cache holds for that path what the set_value before it had inserted.
C20_Witness ==
    \E t \in Tasks :
        /\ IsDone(t, "get_value")
        /\ task[t].force
        /\ task[t].cached0
        /\ task[t].result = Timeout
        /\ Requests(task[t].log) = 1
        /\ ~task[t].touched
        /\ cache[task[t].path] = lastInserted[task[t].path]
        /\ cache[task[t].path] \in Values

\* C21 (entries are never deleted): a path that is in the cache stays in the
\* cache at every step; a path is in the cache exactly when some set_value
\* has inserted it; and the one value the cache holds for it is the value
\* of the most recent insert.
C21_NeverDeleted ==
    /\ [](\A K \in DOMAIN cache :
             /\ cache[K] = lastInserted[K]
             /\ cache[K] \in Values \cup {NoValue})
    /\ [][\A K \in DOMAIN cache :
             contains_key(cache, K) => contains_key(cache', K)]_vars

\* A path was inserted, then a forced refresh of it was requested and timed
\* out: the path is still cached, with the value inserted.
C21_Witness ==
    \E t \in Tasks :
        /\ IsDone(t, "get_value")
        /\ task[t].force
        /\ task[t].cached0
        /\ task[t].result = Timeout
        /\ cache[task[t].path] \in Values
        /\ cache[task[t].path] = lastInserted[task[t].path]
        /\ lastDone[task[t].path] = cache[task[t].path]

\* C28 (ensure_value): an ensure_value(K, f) never waits on the change
\* notification and never writes to a provider or to the console adapter's
\* set_value; once completed it has returned () having issued no console
\* request when f was false and K was cached at its check, and exactly one
\* request_value(K) and nothing else otherwise.
C28_EnsureValue ==
    \A t \in Tasks :
        task[t].op = "ensure_value" =>
            /\ t \notin waiters
            /\ task[t].pc \in {"ev_check", "req_lock", "req_send", "done"}
            /\ \A i \in 1..Len(task[t].log) :
                   task[t].log[i] = EvRequest(task[t].path)
            /\ task[t].hit => contains_key(cache, task[t].path)
            /\ task[t].pc = "done" =>
                   /\ task[t].result = OkUnit
                   /\ (~task[t].force /\ task[t].cached0) => task[t].hit
                   /\ task[t].hit => ~task[t].force
                   /\ task[t].log = IF task[t].hit THEN <<>>
                                    ELSE <<EvRequest(task[t].path)>>

\* A path was inserted and an ensure_value forced on it has then issued its
\* one request although the path was cached.
C28_Witness ==
    \E t \in Tasks :
        /\ IsDone(t, "ensure_value")
        /\ task[t].force /\ task[t].cached0
        /\ contains_key(cache, task[t].path)
        /\ task[t].log = <<EvRequest(task[t].path)>>

\* A get_value that did not return from the cache at its first look and has
\* got past its console request, or has ended.
Requesting(t) ==
    /\ task[t].op = "get_value"
    /\ ~task[t].hit
    /\ task[t].pc \in {"wfv_notified", "wfv_wait", "done"}

\* The call ended in the timeout error while it waited for the console lock.
TimedOutAtLock(t) ==
    /\ task[t].pc = "done"
    /\ task[t].result = Timeout
    /\ task[t].log = <<>>

\* C25 as stated: two get_value calls for the same path that both missed the
\* cache have issued two console requests between them, one each.
C25_Original ==
    \A t, u \in Tasks :
        (t # u /\ Requesting(t) /\ Requesting(u)
             /\ ~task[t].force /\ ~task[u].force
             /\ task[t].path = task[u].path)
        => Requests(task[t].log) + Requests(task[u].log) = 2

\* C25 as amended: requests are never coalesced, a get_value that holds the
\* console lock issues its request whether or not the path is already
\* requested, so each such call has issued exactly one request of its own,
\* except a call whose deadline passed while it waited for the console
\* lock, which has issued none.
C25_NoCoalescing ==
    /\ [](\A t \in Tasks :
             Requesting(t) =>
                 Requests(task[t].log) = IF TimedOutAtLock(t) THEN 0 ELSE 1)
    /\ [][\A t \in Tasks :
             (task[t].op = "get_value" /\ task[t].pc = "req_send"
                 /\ task'[t].pc # "req_send")
             => /\ task'[t].log = Log(t, EvRequest(task[t].path))
                /\ task[t].path \in pending']_vars

\* Two get_value calls for the same uncached path wait at the same time,
\* each having issued its own request.
C25_Witness ==
    \E t, u \in Tasks :
        /\ t # u
        /\ task[t].op = "get_value" /\ task[u].op = "get_value"
        /\ task[t].path = task[u].path
        /\ ~contains_key(cache, task[t].path)
        /\ task[t].pc = "wfv_wait" /\ task[u].pc = "wfv_wait"
        /\ task[t].log = <<EvRequest(task[t].path), EvListen>>
        /\ task[u].log = <<EvRequest(task[u].path), EvListen>>

\* A get_value that takes the request path: it is forced, or its path was
\* missing at its first look.
OnRequestPath(t) ==
    /\ task[t].op = "get_value"
    /\ task[t].pc \notin {"wfv_check", "idle"}
    /\ ~task[t].hit

\* The events of a log from its second on are all Notified futures.
ListensFrom2(log) == \A i \in 2..Len(log) : log[i] = EvListen

\* C26 as stated: a completed get_value(K, f) that was forced or missed the
\* cache has issued exactly one console request.
C26_Original ==
    \A t \in Tasks :
        (OnRequestPath(t) /\ task[t].pc = "done")
        => Requests(task[t].log) = 1

\* C26 as amended: its request is the first thing such a call does and it
\* makes no second one; after it the call only waits on the change
\* notification, reading the cache again after every wake, waiting again
\* when K is still missing and returning the cached value when K is there;
\* it ends with that value or with the timeout error; a forced call does so
\* even when K was cached from the start.  The one exception: a call whose
\* deadline passed while it waited for the console lock has ended in the
\* timeout error without having issued its request.
C26_ReadPath ==
    /\ [](\A t \in Tasks :
             OnRequestPath(t) =>
                 /\ task[t].pc \in {"req_lock", "req_send"}
                        => task[t].log = <<>>
                 /\ task[t].pc \in {"wfv_notified", "wfv_wait"}
                        => /\ Len(task[t].log) >= 1
                           /\ task[t].log[1] = EvRequest(task[t].path)
                           /\ ListensFrom2(task[t].log)
                 /\ task[t].pc = "done"
                        => \/ TimedOutAtLock(t)
                           \/ /\ Len(task[t].log) >= 2
                              /\ task[t].log[1] = EvRequest(task[t].path)
                              /\ ListensFrom2(task[t].log)
                              /\ \/ task[t].result = Timeout
                                 \/ /\ task[t].result.kind = "value"
                                    /\ task[t].result.val \in Values
                                    /\ contains_key(cache, task[t].path))
    /\ [][\A t \in Tasks :
             (OnRequestPath(t) /\ task[t].pc = "wfv_wait"
                 /\ task'[t].pc # "wfv_wait" /\ task'[t].result # Timeout)
             => /\ t \notin waiters
                /\ IF contains_key(cache, task[t].path)
                   THEN /\ task'[t].pc = "done"
                        /\ task'[t].result = OkValue(cache[task[t].path])
                   ELSE task'[t].pc = "wfv_notified"]_vars

\* A get_value for an uncached path was woken by an insert for another
\* path, found its own still missing, waited again and timed out.
C26_Witness ==
    \E t \in Tasks :
        /\ IsDone(t, "get_value")
        /\ ~task[t].force
        /\ ~contains_key(cache, task[t].path)
        /\ task[t].log = <<EvRequest(task[t].path), EvListen, EvListen>>
        /\ task[t].result = Timeout

\* C29 (request_value_notification_checked): a completed call has returned
\* Ok or the timeout error and nothing else; the timeout error only when it
\* was forced or found K missing at its check, a branch on which it
\* delivers no notification itself; and when it was not forced and found K
\* cached it has returned Ok having delivered the cached value once to the
\* requester (its write for a provider, the console adapter's set_value for
\* the console) and nothing else, with no console request.
C29_CheckedNotification ==
    \A t \in Tasks :
        IsDone(t, "request_value_notification_checked") =>
            LET K == task[t].path
                v == task[t].val
            IN  /\ task[t].result \in {OkUnit, Timeout}
                /\ (~task[t].force /\ task[t].cached0) => ~task[t].miss
                /\ (task[t].force \/ task[t].miss)
                      => /\ Writes(task[t].log) = {}
                         /\ CountEv(task[t].log, "console.set_value") = 0
                         /\ Requests(task[t].log) <= 1
                /\ (~task[t].force /\ ~task[t].miss)
                      => /\ task[t].result = OkUnit
                         /\ task[t].log = << IF task[t].id = 0
                                             THEN EvConsoleSet(K, v)
                                             ELSE EvWrite(task[t].id, K, v) >>
                         /\ v \in Values
                         /\ ~task[t].touched => v = cache[K]

\* Provider 1 asked for a checked notification of a cached path and was
\* written the cached value.
C29_Witness ==
    \E t \in Tasks :
        /\ IsDone(t, "request_value_notification_checked")
        /\ ~task[t].force /\ task[t].cached0
        /\ task[t].id = 1
        /\ ~task[t].touched
        /\ task[t].result = OkUnit
        /\ task[t].log = <<EvWrite(1, task[t].path, cache[task[t].path])>>

\* A request_value_notification(K, false) on its way through the branch of
\* a cached K.
Synthesizing(t) ==
    /\ task[t].op = "request_value_notification"
    /\ ~task[t].force
    /\ task[t].pc \in {"rvn_read", "nid", "nid_console", "done"}
    /\ ~task[t].miss

\* C30 (the synthesized notification has one target): every event of a
\* request_value_notification(K, false) that found K cached, called through
\* the Interface with identity p, is the delivery of K to p itself, the
\* write of provider p for p >= 1 and the console adapter's set_value for
\* p = 0; no write goes to another provider; the completed call has made
\* that delivery once, with the value it read from the cache; and none of
\* its steps changes the cache.
C30_SingleTarget ==
    /\ [](\A t \in Tasks :
             Synthesizing(t) =>
                 /\ \A i \in 1..Len(task[t].log) :
                        /\ task[t].log[i].to = task[t].id
                        /\ task[t].log[i].path = task[t].path
                        /\ task[t].log[i].ev =
                              IF task[t].id = 0 THEN "console.set_value"
                              ELSE "write"
                 /\ Len(task[t].log) = IF task[t].pc = "done" THEN 1 ELSE 0
                 /\ task[t].pc = "done"
                        => /\ task[t].log[1].val = task[t].val
                           /\ task[t].val \in Values)
    /\ [][\A t \in Tasks :
             (Synthesizing(t) /\ task'[t].pc # task[t].pc)
             => /\ cache' = cache
                /\ task[t].pc = "rvn_read"
                      => task'[t].val = cache[task[t].path]]_vars

\* The console adapter asked for the notification of a cached path through
\* identity 0 and had the cached value set on itself; no provider was
\* written.
C30_Witness ==
    \E t \in Tasks :
        /\ IsDone(t, "request_value_notification")
        /\ Synthesizing(t)
        /\ task[t].id = 0
        /\ task[t].log = <<EvConsoleSet(task[t].path, cache[task[t].path])>>

\* C22 (meter batches bypass the cache): a set_meters(values) has called
\* write_meter_values(values) once on every registered provider, in the
\* order of the list, whichever of them failed, and has done nothing else;
\* the failures it logged are those of the failing providers; and its step
\* leaves the cache, the tasks waiting on the change notification, the
\* console lock and the console's requests as they were.
C22_MetersBypassCache ==
    /\ [](\A t \in Tasks :
             IsDone(t, "set_meters") =>
                 /\ task[t].result = OkUnit
                 /\ task[t].log = [j \in 1..NumProviders |->
                                     EvWriteMeters(j, task[t].val)]
                 /\ \A j \in 1..Len(task[t].errs) :
                        /\ task[t].errs[j].ev = "error"
                        /\ task[t].errs[j].to \in 1..NumProviders)
    /\ [][\A t \in Tasks :
             (task'[t].op = "set_meters" /\ calls' # calls
                 /\ task'[t] # task[t])
             => /\ cache' = cache
                /\ waiters' = waiters
                /\ console' = console
                /\ pending' = pending
                /\ {task'[t].errs[j].to : j \in 1..Len(task'[t].errs)}
                      = faulty \cap (1..NumProviders)]_vars

\* A batch went out while the first provider was failing and a reader was
\* waiting on the change notification: the second provider was still
\* written and the reader was not woken.
C22_Witness ==
    \E t, u \in Tasks :
        /\ IsDone(t, "set_meters")
        /\ task[t].errs = <<EvError(1, "")>>
        /\ Count(task[t].log, EvWriteMeters(2, task[t].val)) = 1
        /\ task[u].pc = "wfv_wait"
        /\ u \in waiters

\* C27 (meter subscription override): the meter list the console adapter
\* holds is the list of the latest subscribe_to_meters that returned Ok, or
\* none when no call has; and at most one meter task has been spawned.
C27_SubscriptionOverride ==
    /\ meters = subscribed
    /\ spawned <= 1
    /\ meterTask <=> spawned = 1

\* The task j of the MIDI provider holds the Controller lock and is
\* suspended at an await: inside the Interface call it awaits, which itself
\* waits for the console lock or for the change notification, or at the
\* interface mutex held by another task.
HeldAcrossAwait(j) ==
    /\ midi.ctl = j
    /\ \/ /\ Job(j).call # NoTask
          /\ Suspended(Job(j).call)
       \/ /\ Job(j).pc \in {"si_replace", "rb_lock", "rm_lock"}
          /\ midi.ifmx # NoHolder

\* C24 (hardware-callback handoff): the thread of midi_callback is never
\* blocked in blocking_lock on a Controller lock whose holder is suspended
\* at an await.
C24_CallbackHandoff ==
    \A j \in JobIds : ~(midi.cb.pc = "lock" /\ HeldAcrossAwait(j))

\* The operations that take no timeout.
Untimed ==
    {"set_value", "ensure_value", "request_value_notification", "set_meters"}

ReturnsValue(t) ==
    /\ task[t].pc # "done"
    /\ task'[t].pc = "done"
    /\ task'[t].result.kind = "value"

\* The call of t reads the cache after a wake in this step.
Rechecks(t) ==
    /\ task[t].pc = "wfv_wait"
    /\ t \notin waiters
    /\ task'[t].pc # "wfv_wait"

\* C31 (re-check loop): a get_value(K, _) that returns a value returns the
\* value the cache holds under K at the moment of the read, whatever path the
\* insert that woke it was for; a woken call that finds K still absent goes
\* back to waiting with a new Notified future, and returns nothing.
C31_RecheckLoop ==
    [][\A t \in Tasks :
          task[t].op = "get_value" =>
             /\ ReturnsValue(t) =>
                   /\ contains_key(cache, task[t].path)
                   /\ task'[t].result = OkValue(get(cache, task[t].path))
             /\ (Rechecks(t) /\ ~contains_key(cache, task[t].path)) =>
                   /\ task'[t].pc = "wfv_notified"
                   /\ task'[t].result = NoResult]_vars

\* A get_value(K) was woken by an insert for another path, found K absent
\* and listened again, and returned the value inserted for K later, which
\* is not the value of the other path.
C31_Witness ==
    \E t \in Tasks, P \in Paths :
        /\ IsDone(t, "get_value")
        /\ P # task[t].path
        /\ task[t].result.kind = "value"
        /\ CountEv(task[t].log, "notified") >= 2
        /\ contains_key(cache, P)
        /\ cache[P] # task[t].result.val
        /\ cache[task[t].path] = task[t].result.val

\* C32 (forced refresh is fresh): a get_value(K, true) called with K cached
\* that returns a value returns one that was inserted for K after the call
\* had issued its console request; no insert for another path makes it
\* return the value cached before.
C32_ForcedFresh ==
    [][\A t \in Tasks :
          (/\ task[t].op = "get_value"
           /\ task[t].force
           /\ task[t].cached0
           /\ ReturnsValue(t))
          => task[t].touched]_vars

\* A notification request of t has found its path in the cache and has not
\* read the value yet.
BetweenCheckAndRead(t) ==
    /\ task[t].op \in {"request_value_notification",
                       "request_value_notification_checked"}
    /\ task[t].pc = "rvn_read"

\* C33 (check-then-read): whenever value_exists_in_cache(K) has returned
\* true in request_value_notification or its checked variant, the
\* get_cached_value(K) that follows returns Some, whatever set_value and
\* other calls run in between: the unwrap never panics.
C33_CheckThenRead ==
    \A t \in Tasks :
        /\ BetweenCheckAndRead(t) => contains_key(cache, task[t].path)
        /\ task[t].result # Panic

\* Between the check and the read of a notification request for a cached
\* path, a set_value for the same path has inserted another value.
C33_Witness ==
    \E t \in Tasks, u \in Tasks :
        /\ BetweenCheckAndRead(t)
        /\ task[t].cached0
        /\ task[t].touched
        /\ task[u].op = "set_value"
        /\ task[u].path = task[t].path
        /\ task[u].pc = "sv_notify"
        /\ cache[task[t].path] = "v2"

\* The value of the latest console.set_value(K, _) made by a set_value: a
\* set_value of a provider completes in the step that delivers its value to
\* the console adapter.
LastToConsole(K) == lastDone[K]

\* C34 (endpoint convergence): when two set_value calls for the same path K,
\* through the Interfaces of two different providers, have run concurrently
\* and both have completed, the value last delivered to the console adapter
\* for K is the value the cache holds for K.
C34_EndpointConvergence ==
    \A t \in Tasks, u \in Tasks :
        (/\ t # u
         /\ IsDone(t, "set_value") /\ IsDone(u, "set_value")
         /\ task[t].path = task[u].path
         /\ task[t].id # 0 /\ task[u].id # 0 /\ task[t].id # task[u].id
         /\ overlap[task[t].path] = "other")
        => LastToConsole(task[t].path) = cache[task[t].path]

\* No task has run more than one call: the logs hold every write made.
LogsComplete == calls = Cardinality({w \in Tasks : task[w].pc # "idle"})

\* Some call has written a value for K to provider P, or a set_value for K
\* of another interface is on its way to its provider loop.
DeliveredTo(P, K) ==
    \/ \E w \in Tasks : \E i \in Writes(task[w].log) :
          task[w].log[i].to = P /\ task[w].log[i].path = K
    \/ \E w \in Tasks : /\ task[w].op = "set_value"
                        /\ task[w].path = K
                        /\ task[w].id # P
                        /\ task[w].pc \notin {"idle", "done"}

\* C35 (checked notification implies delivery): when
\* request_value_notification_checked(K, f) called by provider P has returned
\* Ok, write(K, _) of P has been invoked or is about to be, also when K was
\* populated, while P waited, by a set_value through P's own Interface.
C35_CheckedImpliesDelivery ==
    \A t \in Tasks :
        (/\ IsDone(t, "request_value_notification_checked")
         /\ task[t].result = OkUnit
         /\ task[t].id # 0
         /\ LogsComplete)
        => DeliveredTo(task[t].id, task[t].path)

\* C36 (interface installed before use): whenever a task spawned by
\* midi_callback for a fader movement unwraps Controller.interface to call
\* set_value, the Interface is there: no such task panics, because no fader
\* movement is processed before the task spawned by set_interface has stored
\* the Interface.
C36_InterfaceBeforeUse ==
    \A j \in JobIds :
        Job(j).kind = "fader" =>
            /\ Job(j).pc # "panicked"
            /\ Job(j).pc \in {"fj_set_value", "fj_wait"} => midi.interface

\* A task spawned by write takes the Controller in this step, for the write
\* at position i of those waiting.
TakesWrite(i) ==
    /\ midi.ctl # WriteTask
    /\ midi'.ctl = WriteTask
    /\ i \in 1..Len(midi.writes)
    /\ midi'.writer = midi.writes[i]
    /\ midi'.writes = SubSeq(midi.writes, 1, i - 1)
                         \o SubSeq(midi.writes, i + 1, Len(midi.writes))

\* C37 (delivery order): the writes the orchestrator delivers to the
\* Controller for one path are processed in the order of the calls: the
\* write a task takes the Controller for is one that no waiting write for
\* the same path was delivered before, so the surface ends up showing the
\* value delivered last.
C37_DeliveryOrder ==
    [][(\E i \in 1..Len(midi.writes) : TakesWrite(i)) =>
          \E i \in 1..Len(midi.writes) :
              /\ TakesWrite(i)
              /\ \A k \in 1..(i - 1) :
                    midi.writes[k][1] # midi.writes[i][1]]_vars

\* The values of the pitch bends midi_callback has received, in callback
\* order: it echoes each to the surface before it returns.
Bends ==
    SelectSeq(midi.out, LAMBDA o : o[1] = "PitchBend")

\* Every task spawned for a fader movement has called set_value and ended.
FaderTasksDone ==
    /\ midi.cb.pc = "idle"
    /\ \A j \in JobIds :
          /\ Job(j).pc # "panicked"
          /\ Job(j).kind = "fader" => Job(j).pc \in {"none", "done"}

\* C38 (callback order): when midi_callback has received two pitch bends of
\* one fader and the set_value of each has completed, the cache holds for
\* the fader's path the value of the second, unless another interface has
\* set the path since.
C38_CallbackOrder ==
    (/\ Len(Bends) = 2
     /\ FaderTasksDone
     /\ originator[get_osc_path(1, "Fader")] = MidiId)
    => cache[get_osc_path(1, "Fader")] = Bends[2][3]

\* The task j runs the match of do_function in this step.
DoesFunction(j, fn) ==
    /\ Job(j).pc = "do_function"
    /\ Job(j).fn = fn
    /\ midi'.jobs[j].pc # "do_function"

\* C39 (bank index validity): current_bank is always an index of banks;
\* NextBank moves it to the next bank and from the last bank to bank 0,
\* PreviousBank to the bank before and from bank 0 to the last bank, and
\* nothing else changes it.
C39_BankIndexValid ==
    /\ [](midi.current_bank \in BankIndices)
    /\ [][/\ \A j \in JobIds :
               /\ DoesFunction(j, "NextBank") =>
                     midi'.current_bank =
                         IF midi.current_bank = NumBanks - 1 THEN 0
                         ELSE midi.current_bank + 1
               /\ DoesFunction(j, "PreviousBank") =>
                     midi'.current_bank =
                         IF midi.current_bank = 0 THEN NumBanks - 1
                         ELSE midi.current_bank - 1
          /\ midi'.current_bank # midi.current_bank =>
                \E j \in JobIds :
                    DoesFunction(j, "NextBank")
                       \/ DoesFunction(j, "PreviousBank")]_vars

\* NextBank has just been run at the last bank, which PreviousBank had
\* reached from bank 0 or NextBank from the bank before: bank 0 is current.
C39_Witness ==
    /\ midi.events = 2
    /\ midi.current_bank = 0
    /\ \E j \in JobIds :
          /\ Job(j).kind = "function"
          /\ Job(j).fn = "NextBank"
          /\ Job(j).pc = "rb_lock"

\* C40 (path round trip): for the fader built from a valid label and every
\* PathType ty, path_matches(get_osc_path(ty)) of that fader is Some(ty);
\* path_matches of a fader with another directory is None for that path.
C40_PathRoundTrip ==
    \A t \in Tasks :
        IsDone(t, "path_matches") =>
            LET made == new_from_label(Labels[task[t].id])
                matcher == new_from_label(Labels[task[t].i])
            IN  /\ matcher = made => task[t].result = OkValue(task[t].val)
                /\ matcher # made => task[t].result = OkValue(NoValue)

====
